---- MODULE Spec2Model ----
(***************************************************************************)
(* Query understanding and resolution pipeline of the mobile shopping      *)
(* agent: QueryProcessor.process and the helpers it calls, with the        *)
(* oracle (LLMClient), the semantic matcher (VectorClient) and the store   *)
(* (DatabaseClient) as nondeterministic collaborators.                     *)
(*                                                                         *)
(* Python strings are sequences of one-character strings, so that lower(), *)
(* substring tests and re.sub are computed and not assumed.  A Python      *)
(* value that may be None, a str or a number is a record                   *)
(* [kind, s, n] with kind in {"none", "str", "num"}.                       *)
(***************************************************************************)
EXTENDS Integers, Sequences, FiniteSets, TLC

VARIABLES
    pc,               \* position inside process() / a harness
    user_query,       \* process() argument
    filters,          \* process() argument: the sidebar filter set
    on_status,        \* whether an on_status callback was passed
    parsed,           \* the intent as parse_intent returned it
    intent,           \* the intent dict, mutated in place by process()
    entities,         \* intent.pop("entities", ...)
    corrected_query,  \* _apply_corrections: corrected_query
    corrections,      \* _apply_corrections: corrections
    company_map,      \* _apply_corrections: company_map (insertion ordered)
    corrected_models, \* _get_corrected_models: corrected
    idx,              \* index of the running for loop
    result,           \* the result envelope
    all_sqls,         \* _process_multi_model: all_sqls
    all_dfs,          \* _process_multi_model: all_dfs
    calls,            \* how often each collaborator was called in this request
    statusLog,        \* the messages handed to status()
    lastMatch,        \* what the latest find_similar call answered
    sqlIntents,       \* the intents handed to generate_sql
    branch,           \* the branch process() dispatched to, "" before
    raised,           \* the exception that escaped process(), "" when none
    trace,            \* the collaborator calls of this request, in order,
                      \* each with its argument and its answer
    dbStatements,     \* the statements handed to db.query in this request
    replay,           \* the calls of an earlier request whose answers the
                      \* collaborators repeat, <<>> when there is none
    earlier,          \* how that earlier request ended
    attempt,          \* handle_with_retry: attempt
    outcomes,         \* handle_with_retry: what each func() call came to
    sleeps,           \* handle_with_retry: the time.sleep() durations
    returned,         \* what handle_with_retry / _post / find_similar returned
    call,             \* the arguments of the call under test
    chat_history,     \* st.session_state.chat_history
    query_cache,      \* st.session_state.query_cache (insertion ordered)
    current_response, \* st.session_state.current_response
    processCalls,     \* the (query, filters) pairs process() was invoked with
    connections,      \* the connections _connect() created, each open or closed
    dbCalls           \* the DatabaseClient calls made, each with how it ended

pipelineVars ==
    <<pc, user_query, filters, on_status, parsed, intent, entities,
      corrected_query, corrections, company_map, corrected_models, idx,
      result, all_sqls, all_dfs, calls, statusLog, lastMatch, sqlIntents,
      branch, raised, trace, dbStatements>>

replayVars == <<replay, earlier>>

sessionVars == <<chat_history, query_cache, current_response, processCalls>>

storeVars == <<connections, dbCalls>>

harnessVars ==
    <<attempt, outcomes, sleeps, returned, call, sessionVars, storeVars>>

vars == <<pipelineVars, replayVars, harnessVars>>

-----------------------------------------------------------------------------
(* Bounds of the model. *)

\* longest constraint list the oracle returns with an intent
MaxConstraints == 1
\* most model mentions the oracle extracts
MaxModels == 2
\* most company mentions the oracle extracts
MaxCompanies == 1
\* most rows one statement returns
MaxRows == 2
\* longest constraint list given to _merge_filters on its own
MaxMergeConstraints == 2
\* most constraints and mentions of an intent whose request is run twice
MaxStatusMentions == 2

-----------------------------------------------------------------------------
(* Python values. *)

NoneV == [kind |-> "none", s |-> <<>>, n |-> 0]
StrV(s) == [kind |-> "str", s |-> s, n |-> 0]
NumV(n) == [kind |-> "num", s |-> <<>>, n |-> n]

\* bool(v) of Python for None, str and numbers
Truthy(v) ==
    CASE v.kind = "none" -> FALSE
      [] v.kind = "str" -> v.s # <<>>
      [] OTHER -> v.n # 0

\* str.lower() on the letters the model uses
UpperToLower ==
    [A |-> "a", C |-> "c", D |-> "d", E |-> "e", G |-> "g", L |-> "l",
     O |-> "o", P |-> "p", R |-> "r", S |-> "s", T |-> "t", X |-> "x"]

LowerChar(c) == IF c \in DOMAIN UpperToLower THEN UpperToLower[c] ELSE c

Lower(s) == [i \in DOMAIN s |-> LowerChar(s[i])]

\* sub in s
Contains(sub, s) ==
    \E i \in 1..(Len(s) - Len(sub) + 1) : SubSeq(s, i, i + Len(sub) - 1) = sub

RECURSIVE ReSubFrom(_, _, _, _)
ReSubFrom(pat, repl, text, i) ==
    IF i > Len(text) THEN <<>>
    ELSE IF /\ Len(pat) > 0
            /\ i + Len(pat) - 1 <= Len(text)
            /\ Lower(SubSeq(text, i, i + Len(pat) - 1)) = Lower(pat)
         THEN repl \o ReSubFrom(pat, repl, text, i + Len(pat))
         ELSE <<text[i]>> \o ReSubFrom(pat, repl, text, i + 1)

\* re.sub(re.escape(pat), repl, text, flags=re.IGNORECASE), pat not empty
ReSub(pat, repl, text) == ReSubFrom(pat, repl, text, 1)

-----------------------------------------------------------------------------
(* Constraints and the filter merge. *)

CompanyName == "Company Name"
ModelName == "Model Name"
Processor == "Processor"
Price == "Launched Price (INR)"
Camera == "Back Camera (MP)"
Battery == "Battery Capacity (mAh)"

Constraint(col, op, val) == [column |-> col, operator |-> op, value |-> val]

\* the (column, key_min, key_max) triples of _merge_filters, in loop order
RangeColumns == <<Price, Camera, Battery>>

FilterMin(f, col) ==
    CASE col = Price -> f.price_min
      [] col = Camera -> f.camera_min
      [] OTHER -> f.battery_min

FilterMax(f, col) ==
    CASE col = Price -> f.price_max
      [] col = Camera -> f.camera_max
      [] OTHER -> f.battery_max

RangeConstraintsAlways(f, col) ==
    <<Constraint(col, ">=", FilterMin(f, col)), Constraint(col, "<=", FilterMax(f, col))>>
RangeConstraints(f, col) ==
    (IF FilterMin(f, col).kind # "none"
     THEN <<Constraint(col, ">=", FilterMin(f, col))>> ELSE <<>>)
    \o
    (IF FilterMax(f, col).kind # "none"
     THEN <<Constraint(col, "<=", FilterMax(f, col))>> ELSE <<>>)

\* filter_constraints of _merge_filters
FilterConstraints(f) ==
    (IF Truthy(f.company)
     THEN <<Constraint(CompanyName, "==", StrV(Lower(f.company.s)))>> ELSE <<>>)
    \o RangeConstraints(f, RangeColumns[1])
    \o RangeConstraints(f, RangeColumns[2])
    \o RangeConstraints(f, RangeColumns[3])

SamePair(c, fc) == c.column = fc.column /\ c.operator = fc.operator

\* "Replace existing or add new": the first entry with fc's (column, operator)
\* is overwritten, and fc is appended when there is none
MergeOneAppendOnly(cs, fc) == Append(cs, fc)
MergeOneKeepExisting(cs, fc) ==
    IF \E i \in DOMAIN cs : SamePair(cs[i], fc) THEN cs ELSE Append(cs, fc)
MergeOne(cs, fc) ==
    IF \E i \in DOMAIN cs : SamePair(cs[i], fc)
    THEN LET first == CHOOSE i \in DOMAIN cs :
                        /\ SamePair(cs[i], fc)
                        /\ \A j \in 1..(i - 1) : ~SamePair(cs[j], fc)
         IN [cs EXCEPT ![first] = fc]
    ELSE Append(cs, fc)

RECURSIVE MergeAll(_, _, _)
MergeAll(cs, fcs, k) ==
    IF k > Len(fcs) THEN cs ELSE MergeAll(MergeOne(cs, fcs[k]), fcs, k + 1)

\* _merge_filters(intent, filters): the intent it leaves behind
MergeFilters(it, f) ==
    LET fcs == FilterConstraints(f)
        cs0 == IF it.hasConstraints THEN it.constraints ELSE <<>>
    IN IF fcs = <<>> THEN it
       ELSE [it EXCEPT !.hasConstraints = TRUE,
                       !.constraints = MergeAll(cs0, fcs, 1)]

-----------------------------------------------------------------------------
(* The tabular catalog, the semantic index built from it, and the matcher. *)

\* hundredths of the cosine score returned by the index
Threshold == 40

Ap == <<"A", "p">>
Sa == <<"S", "a">>
P1 == <<"P", "1">>
G2 == <<"G", "2">>

\* the vectors build_index upserts: companies, and models tagged with the
\* lower-cased company
IndexVectors ==
    { [type |-> "company", original_name |-> Ap, company |-> <<>>],
      [type |-> "company", original_name |-> Sa, company |-> <<>>],
      [type |-> "model", original_name |-> P1, company |-> Lower(Ap)],
      [type |-> "model", original_name |-> G2, company |-> Lower(Sa)] }

Scores == {Threshold - 1, Threshold, Threshold + 1}

\* what index.query(top_k=1, filter=filter_dict) may answer: no match, or one
\* vector that satisfies the filter, with its score
IndexResponses(type_filter, company_filter) ==
    LET ok(v) == /\ type_filter # "" => v.type = type_filter
                 /\ (Truthy(company_filter) /\ type_filter = "model")
                        => v.company = Lower(company_filter.s)
    IN {<<>>} \cup
       { <<[score |-> sc, original_name |-> v.original_name]>> :
             sc \in Scores, v \in {w \in IndexVectors : ok(w)} }

\* index.query(...) itself: it raises (the index is unreachable), or answers
IndexAnswers(type_filter, company_filter) ==
    { [raises |-> TRUE, matches |-> <<>>] }
    \cup { [raises |-> FALSE, matches |-> m] :
               m \in IndexResponses(type_filter, company_filter) }

\* an exception of index.query, which find_similar lets through
RaiseV == [kind |-> "raise", s |-> <<>>, n |-> 0]

\* "matches[0]['score'] > threshold"
AboveThresholdOrEqual(score) == score >= Threshold
AboveThreshold(score) == score > Threshold

\* find_similar(query, type_filter, company_filter) given what embed() and
\* index.query() answered
FindSimilar(query, embedding_ok, ia) ==
    IF query = <<>> THEN NoneV
    ELSE IF ~embedding_ok THEN NoneV
    ELSE IF ia.raises THEN RaiseV
    ELSE IF ia.matches # <<>> /\ AboveThreshold(ia.matches[1].score)
         THEN StrV(ia.matches[1].original_name)
         ELSE NoneV

\* every outcome find_similar can have for one call
FindSimilarAnswers(query, type_filter, company_filter) ==
    { FindSimilar(query, ok, ia) :
          ok \in BOOLEAN, ia \in IndexAnswers(type_filter, company_filter) }

-----------------------------------------------------------------------------
(* company_map: an insertion-ordered dict, a sequence of <<key, value>>. *)

DictSet(d, k, v) ==
    IF \E i \in DOMAIN d : d[i][1] = k
    THEN [i \in DOMAIN d |-> IF d[i][1] = k THEN <<k, v>> ELSE d[i]]
    ELSE Append(d, <<k, v>>)

\* _detect_model_company(model, company_map)
DetectModelCompanyFirst(model, cmap) ==
    IF cmap # <<>> THEN StrV(cmap[1][2]) ELSE NoneV
DetectModelCompany(model, cmap) ==
    LET model_lower == Lower(model)
        hit(i) == \/ Contains(cmap[i][1], model_lower)
                  \/ Contains(Lower(cmap[i][2]), model_lower)
    IN IF \E i \in DOMAIN cmap : hit(i)
       THEN StrV(cmap[CHOOSE i \in DOMAIN cmap :
                        hit(i) /\ \A j \in 1..(i - 1) : ~hit(j)][2])
       ELSE IF Len(cmap) = 1 THEN StrV(cmap[1][2])
       ELSE NoneV

\* "if match and match.lower() != x.lower()" of _apply_corrections
DiffersExactly(match, raw) == Truthy(match) /\ match.s # raw
Differs(match, raw) == Truthy(match) /\ Lower(match.s) # Lower(raw)

Correction(kind, original, corrected) ==
    [kind |-> kind, original |-> original, corrected |-> corrected]

-----------------------------------------------------------------------------
(* Python objects that end up in the envelope: None, a str (a fixed        *)
(* message msg followed by the text s) or the pair (first, error_info)     *)
(* that generate_sql, summarize and answer_general return.                 *)

NoneO == [kind |-> "none", msg |-> "", s |-> <<>>, first |-> NoneV, err |-> ""]
TextO(s) == [kind |-> "str", msg |-> "", s |-> s, first |-> NoneV, err |-> ""]
FixedO(msg, s) == [kind |-> "str", msg |-> msg, s |-> s, first |-> NoneV, err |-> ""]
PairO(first, err) == [kind |-> "pair", msg |-> "", s |-> <<>>, first |-> first, err |-> err]

Apology == "Oops! I couldn't process your query right now."
RefusalPrefix == "I can't help with that request. "
RefusalFallback == <<"P", "l", "e", "a", "s", "e">>
UnsupportedMsg == "I'm not sure how to help with that."
NotFoundMsg == "Sorry, I couldn't find those phones in our database."
NoPhonesMsg == "No phones found matching your criteria."
BadQueryMsg == "Sorry, I couldn't generate a proper search query."
SearchErrorMsg == "Oops! Something went wrong while searching."

NoTask == "<None>"

\* result = {"corrections": [], "task": None, "sql": None, "results": None, "content": ""}
EmptyResult ==
    [corrections |-> <<>>, task |-> NoTask, sql |-> NoneO,
     results |-> [set |-> FALSE, rows |-> <<>>], content |-> TextO(<<>>)]

NoCalls ==
    [parse_intent |-> 0, find_similar |-> 0, generate_sql |-> 0, db_query |-> 0,
     summarize |-> 0, answer_general |-> 0]

-----------------------------------------------------------------------------
(* The oracle: what _post and the text extraction can come to.             *)

PostErrors == {"rate_limit", "network_error"}

\* the outcomes of one oracle round trip that carry no text
FailedOutcomes ==
    { [kind |-> "post_error", err |-> e, text |-> <<>>] : e \in PostErrors }
    \cup { [kind |-> "falsy_body", err |-> "", text |-> <<>>],
           [kind |-> "bad_format", err |-> "", text |-> <<>>] }

TextOutcome(t) == [kind |-> "text", err |-> "", text |-> t]

\* the shared shape of generate_sql, summarize and answer_general: _post's
\* error_info gives (None, error_info); a falsy body makes _post return
\* (None, None) and _extract_text(None) raises TypeError, which the
\* except (KeyError, IndexError) does not catch; otherwise (text, None)
LlmPair(o) ==
    CASE o.kind = "post_error" -> [raises |-> "", value |-> PairO(NoneV, o.err)]
      [] o.kind = "falsy_body" -> [raises |-> "TypeError", value |-> NoneO]
      [] o.kind = "bad_format" ->
            [raises |-> "", value |-> PairO(NoneV, "invalid_response")]
      [] OTHER -> [raises |-> "", value |-> PairO(StrV(o.text), "")]

GenerateSql(o) == LlmPair(o)
Summarize(o) == LlmPair(o)
AnswerGeneral(o) == LlmPair(o)

\* default_response of parse_intent, tagged with the error marker
DefaultResponse ==
    [task |-> "query", hasConstraints |-> TRUE, constraints |-> <<>>,
     hasEntities |-> TRUE, entities |-> [companies |-> <<>>, models |-> <<>>],
     priority_features |-> "", hasRefusal |-> TRUE, refusal |-> StrV(<<>>),
     error |-> TRUE]

\* the value of parsed and intent before parse_intent has returned
NoIntent == [DefaultResponse EXCEPT !.error = FALSE]

\* parse_intent(user_query) for one oracle outcome; o.json is the parsed object
ParseIntent(o) ==
    CASE o.kind = "post_error" -> [raises |-> "", intent |-> DefaultResponse]
      [] o.kind = "falsy_body" -> [raises |-> "TypeError", intent |-> DefaultResponse]
      [] o.kind = "bad_format" -> [raises |-> "", intent |-> DefaultResponse]
      [] OTHER ->
            [raises |-> "",
             intent |-> [o.json EXCEPT !.task = IF @ = "" THEN "query" ELSE @]]

\* "if intent.get('error')" of process()
IntentFailedNever(it) == FALSE
IntentFailed(it) == it.error

-----------------------------------------------------------------------------
(* Normalization and snapping of the merged intent. *)

StringColumns == {CompanyName, ModelName, Processor}

NormalizeConstraint(c) ==
    IF c.column \in StringColumns /\ c.value.kind = "str"
    THEN [c EXCEPT !.value = StrV(Lower(c.value.s))]
    ELSE c

\* _normalize_intent(intent); the model's intents carry no models_to_compare
NormalizeIntent(it) ==
    IF it.hasConstraints
    THEN [it EXCEPT !.constraints =
              [i \in DOMAIN it.constraints |-> NormalizeConstraint(it.constraints[i])]]
    ELSE it

\* the constraints _snap_model_names looks up
IsSnapTarget(c) == c.column = ModelName /\ c.value.kind = "str"

SnapLeft(it, i) ==
    IF it.hasConstraints
    THEN {j \in DOMAIN it.constraints : j >= i /\ IsSnapTarget(it.constraints[j])}
    ELSE {}

Min(S) == CHOOSE x \in S : \A y \in S : x <= y

\* str(v) inside an f-string
PyStr(v) == IF v.kind = "none" THEN <<"N", "o", "n", "e">> ELSE v.s

IsSpace(c) == c \in {" ", "\n", "\t"}

RECURSIVE LStrip(_)
LStrip(s) == IF s # <<>> /\ IsSpace(Head(s)) THEN LStrip(Tail(s)) ELSE s

RECURSIVE RStrip(_)
RStrip(s) ==
    IF s # <<>> /\ IsSpace(s[Len(s)]) THEN RStrip(SubSeq(s, 1, Len(s) - 1)) ELSE s

Strip(s) == RStrip(LStrip(s))

SelectWord == <<"s", "e", "l", "e", "c", "t">>

\* sql_query.strip().lower().startswith("select")
StartsWithSelect(s) ==
    LET t == Lower(Strip(s))
    IN Len(t) >= Len(SelectWord) /\ SubSeq(t, 1, Len(SelectWord)) = SelectWord

\* pd.concat(all_dfs, ignore_index=True).drop_duplicates()
RECURSIVE Concat(_)
Concat(dfs) == IF dfs = <<>> THEN <<>> ELSE Head(dfs) \o Concat(Tail(dfs))

RECURSIVE DropDuplicates(_)
DropDuplicates(rows) ==
    IF rows = <<>> THEN <<>>
    ELSE LET init == DropDuplicates(SubSeq(rows, 1, Len(rows) - 1))
             last == rows[Len(rows)]
         IN IF \E i \in DOMAIN init : init[i] = last THEN init ELSE Append(init, last)

-----------------------------------------------------------------------------
(* The inputs: the user's text, the sidebar, and what the collaborators    *)
(* answer.                                                                 *)

SeqsUpTo(S, n) == UNION { [1..k -> S] : k \in 0..n }

\* "AX p1 aPx": the mentions below occur in it in another case
UserQueries == { <<"A", "X", " ", "p", "1", " ", "a", "P", "x">> }

\* "ap" is the catalog's "Ap" up to case, "ax" a typo
CompanyMentions == { <<"a", "p">>, <<"a", "x">> }

\* "p1" is the catalog's "P1" up to case, "apx" a typo naming its company
ModelMentions == { <<"p", "1">>, <<"a", "p", "x">> }

NoFilters ==
    [company |-> NoneV, price_min |-> NoneV, price_max |-> NoneV,
     camera_min |-> NoneV, camera_max |-> NoneV,
     battery_min |-> NoneV, battery_max |-> NoneV]

\* the sidebar of a request: untouched, or a brand and a price ceiling chosen
RequestFilters ==
    { NoFilters,
      [NoFilters EXCEPT !.company = StrV(Sa), !.price_max = NumV(50000)] }

\* the constraints the oracle puts into an intent
OracleConstraints ==
    { Constraint(Price, "<=", NumV(30000)),
      Constraint(CompanyName, "==", StrV(Ap)),
      Constraint(ModelName, "==", StrV(<<"P", "x">>)) }

Tasks == {"query", "general_qa", "refusal", "chitchat", ""}

\* the JSON objects the oracle answers parse_intent with
OracleIntents ==
    { [task |-> t, hasConstraints |-> TRUE, constraints |-> cs,
       hasEntities |-> TRUE, entities |-> [companies |-> co, models |-> mo],
       priority_features |-> "rating_desc",
       hasRefusal |-> TRUE, refusal |-> StrV(<<>>), error |-> FALSE] :
          t \in Tasks,
          cs \in SeqsUpTo(OracleConstraints, MaxConstraints),
          co \in SeqsUpTo(CompanyMentions, MaxCompanies),
          mo \in SeqsUpTo(ModelMentions, MaxModels) }
    \cup
    { [task |-> "refusal", hasConstraints |-> FALSE, constraints |-> <<>>,
       hasEntities |-> FALSE, entities |-> [companies |-> <<>>, models |-> <<>>],
       priority_features |-> "",
       hasRefusal |-> h, refusal |-> r, error |-> FALSE] :
          h \in BOOLEAN, r \in {NoneV, StrV(<<>>), StrV(<<"n", "o">>)} }

IntentOutcomes ==
    { [kind |-> o.kind, err |-> o.err, json |-> DefaultResponse] : o \in FailedOutcomes }
    \cup { [kind |-> "json", err |-> "", json |-> j] : j \in OracleIntents }

\* the texts the oracle answers generate_sql with
SqlTexts ==
    { <<" ", "S", "e", "l", "e", "c", "t", " ", "1">>,
      <<"D", "R", "O", "P">> }

SqlOutcomes == FailedOutcomes \cup { TextOutcome(t) : t \in SqlTexts }

NarrativeOutcomes == FailedOutcomes \cup { TextOutcome(<<"o", "k">>) }

\* catalog rows, [company, model, price]
Rows ==
    { [company |-> Ap, model |-> P1, price |-> 30000],
      [company |-> Sa, model |-> G2, price |-> 50000] }

\* what db.query does with a statement: it raises, or returns rows
DbOutcomes ==
    { [kind |-> "raise", rows |-> <<>>] }
    \cup { [kind |-> "rows", rows |-> r] : r \in SeqsUpTo(Rows, MaxRows) }

Status(log, msg) == IF on_status THEN Append(log, msg) ELSE log

\* one collaborator call as the trace records it
Call(name, arg, ans) == [call |-> name, arg |-> arg, answer |-> ans]

\* the collaborators answer the calls es as they answered the same calls of
\* the earlier request, where there was one
Replays(es) ==
    \A k \in DOMAIN es :
        LET n == Len(trace) + k
        IN IF n > Len(replay) THEN TRUE
           ELSE IF replay[n].call # es[k].call THEN TRUE
           ELSE replay[n].answer = es[k].answer

\* how a request ended; done is FALSE while there is no earlier request, and
\* twice is TRUE when the caller is going to repeat the request
NoRun ==
    [twice |-> FALSE, done |-> FALSE, branch |-> "", raised |-> "", pc |-> "",
     result |-> EmptyResult, trace |-> <<>>]

\* the intents of the requests that are run twice hold at most
\* MaxStatusMentions constraints and mentions together
InScope(o) ==
    earlier.twice =>
        Len(o.json.constraints) + Len(o.json.entities.companies)
            + Len(o.json.entities.models) <= MaxStatusMentions

NoEntities == [companies |-> <<>>, models |-> <<>>]

\* a fresh session (_init_session_state) and a store nobody has called
SessionIdle ==
    /\ chat_history = <<>>
    /\ query_cache = <<>>
    /\ current_response = NoneO
    /\ processCalls = <<>>

StoreIdle ==
    /\ connections = <<>>
    /\ dbCalls = <<>>

\* the state of the retry and matcher harnesses while process() is modelled
HarnessIdle ==
    /\ attempt = 0
    /\ outcomes = <<>>
    /\ sleeps = <<>>
    /\ returned = NoneV
    /\ call = NoneV
    /\ SessionIdle
    /\ StoreIdle

-----------------------------------------------------------------------------
(* process(user_query, filters, on_status) *)

\* the locals of process() before its first statement
Entry ==
    [pc |-> "start", parsed |-> NoIntent, intent |-> NoIntent,
     entities |-> NoEntities, corrected_query |-> <<>>, corrections |-> <<>>,
     company_map |-> <<>>, corrected_models |-> <<>>, idx |-> 1,
     result |-> EmptyResult, all_sqls |-> <<>>, all_dfs |-> <<>>,
     calls |-> NoCalls, statusLog |-> <<>>, lastMatch |-> NoneV,
     sqlIntents |-> <<>>, branch |-> "", raised |-> "", trace |-> <<>>,
     dbStatements |-> <<>>]

Start(run) ==
    /\ pc = Entry.pc
    /\ user_query \in UserQueries
    /\ filters \in RequestFilters
    /\ on_status \in BOOLEAN
    /\ parsed = Entry.parsed
    /\ intent = Entry.intent
    /\ entities = Entry.entities
    /\ corrected_query = Entry.corrected_query
    /\ corrections = Entry.corrections
    /\ company_map = Entry.company_map
    /\ corrected_models = Entry.corrected_models
    /\ idx = Entry.idx
    /\ result = Entry.result
    /\ all_sqls = Entry.all_sqls
    /\ all_dfs = Entry.all_dfs
    /\ calls = Entry.calls
    /\ statusLog = Entry.statusLog
    /\ lastMatch = Entry.lastMatch
    /\ sqlIntents = Entry.sqlIntents
    /\ branch = Entry.branch
    /\ raised = Entry.raised
    /\ trace = Entry.trace
    /\ dbStatements = Entry.dbStatements
    /\ replay = <<>>
    /\ earlier = run
    /\ HarnessIdle

Init == Start(NoRun)

\* the intent that intent.pop("entities", ...) leaves behind
PopEntitiesKeep(it) == it
PopEntities(it) == [it EXCEPT !.hasEntities = FALSE, !.entities = NoEntities]

\* lines 52-76: the envelope, parse_intent, the error marker, entities popped
ParseIntentStep ==
    /\ pc = "start"
    /\ \E o \in IntentOutcomes :
         LET r == ParseIntent(o)
             failed == r.raises = "" /\ IntentFailed(r.intent)
             es == <<Call("parse_intent", [text |-> user_query], o)>>
         IN /\ InScope(o)
            /\ Replays(es)
            /\ trace' = trace \o es
            /\ raised' = r.raises
            /\ parsed' = IF r.raises = "" THEN r.intent ELSE parsed
            /\ pc' = IF r.raises # "" THEN "raised"
                     ELSE IF failed THEN "done" ELSE "corrections"
            /\ result' = IF failed
                         THEN [result EXCEPT !.content = FixedO(Apology, <<>>)]
                         ELSE result
            /\ intent' = IF r.raises = "" /\ ~failed
                         THEN PopEntities(r.intent)
                         ELSE intent
            /\ entities' = IF r.raises = "" /\ ~failed /\ r.intent.hasEntities
                           THEN r.intent.entities
                           ELSE entities
    /\ corrected_query' = user_query
    /\ calls' = [calls EXCEPT !.parse_intent = @ + 1]
    /\ statusLog' = Status(statusLog, "Analyzing your question...")
    /\ UNCHANGED <<user_query, filters, on_status, corrections, company_map,
                   corrected_models, idx, all_sqls, all_dfs, lastMatch,
                   sqlIntents, branch, dbStatements, replayVars, harnessVars>>

\* one find_similar call as the trace records it
Lookup(query, type_filter, company_filter, match) ==
    <<Call("find_similar",
           [query |-> query, type_filter |-> type_filter,
            company_filter |-> company_filter],
           match)>>

\* lines 156-164: one iteration of "for company in entities.get('companies')"
CorrectCompany ==
    /\ pc = "corrections"
    /\ idx <= Len(entities.companies)
    /\ LET company == entities.companies[idx]
       IN \E match \in FindSimilarAnswers(company, "company", NoneV) :
            LET es == Lookup(company, "company", NoneV, match)
                exc == match.kind = "raise"
            IN /\ Replays(es)
               /\ trace' = trace \o es
               /\ lastMatch' = match
               /\ pc' = IF exc THEN "raised" ELSE pc
               /\ raised' = IF exc THEN "IndexQueryError" ELSE raised
               /\ idx' = IF exc THEN idx ELSE idx + 1
               /\ company_map' = IF Truthy(match)
                                 THEN DictSet(company_map, Lower(company), match.s)
                                 ELSE company_map
               /\ corrections' = IF Differs(match, company)
                                 THEN Append(corrections,
                                             Correction("Company", company, match.s))
                                 ELSE corrections
               /\ corrected_query' = IF Differs(match, company)
                                     THEN ReSub(company, match.s, corrected_query)
                                     ELSE corrected_query
    /\ calls' = [calls EXCEPT !.find_similar = @ + 1]
    /\ UNCHANGED <<user_query, filters, on_status, parsed, intent, entities,
                   corrected_models, result, all_sqls, all_dfs, statusLog,
                   sqlIntents, branch, dbStatements, replayVars, harnessVars>>

\* lines 167-176: one iteration of "for model in entities.get('models')"
CorrectModel ==
    /\ pc = "corrections"
    /\ idx > Len(entities.companies)
    /\ idx - Len(entities.companies) <= Len(entities.models)
    /\ LET model == entities.models[idx - Len(entities.companies)]
           model_company == DetectModelCompany(model, company_map)
       IN \E match \in FindSimilarAnswers(model, "model", model_company) :
            LET es == Lookup(model, "model", model_company, match)
                exc == match.kind = "raise"
            IN /\ Replays(es)
               /\ trace' = trace \o es
               /\ lastMatch' = match
               /\ pc' = IF exc THEN "raised" ELSE pc
               /\ raised' = IF exc THEN "IndexQueryError" ELSE raised
               /\ idx' = IF exc THEN idx ELSE idx + 1
               /\ corrections' = IF Differs(match, model)
                                 THEN Append(corrections,
                                             Correction("Model", model, match.s))
                                 ELSE corrections
               /\ corrected_query' = IF Differs(match, model)
                                     THEN ReSub(model, match.s, corrected_query)
                                     ELSE corrected_query
    /\ calls' = [calls EXCEPT !.find_similar = @ + 1]
    /\ UNCHANGED <<user_query, filters, on_status, parsed, intent, entities,
                   company_map, corrected_models, result, all_sqls, all_dfs,
                   statusLog, sqlIntents, branch, dbStatements, replayVars,
                   harnessVars>>

\* lines 76-87: corrections into the envelope, filters merged, casing normalized
MergeAndNormalize ==
    /\ pc = "corrections"
    /\ idx > Len(entities.companies) + Len(entities.models)
    /\ result' = [result EXCEPT !.corrections = corrections]
    /\ statusLog' = IF corrections # <<>>
                    THEN Status(statusLog, "Corrected name(s)")
                    ELSE statusLog
    /\ intent' = NormalizeIntent(MergeFilters(intent, filters))
    /\ pc' = "snap"
    /\ idx' = 1
    /\ UNCHANGED <<user_query, filters, on_status, parsed, entities,
                   corrected_query, corrections, company_map, corrected_models,
                   all_sqls, all_dfs, calls, lastMatch, sqlIntents, branch,
                   raised, trace, dbStatements, replayVars, harnessVars>>

\* lines 252-256: _snap_model_names, one Model Name constraint
SnapModelName ==
    /\ pc = "snap"
    /\ SnapLeft(intent, idx) # {}
    /\ LET j == Min(SnapLeft(intent, idx))
           name == intent.constraints[j].value.s
       IN \E match \in FindSimilarAnswers(name, "model", NoneV) :
            LET es == Lookup(name, "model", NoneV, match)
                exc == match.kind = "raise"
            IN /\ Replays(es)
               /\ trace' = trace \o es
               /\ lastMatch' = match
               /\ pc' = IF exc THEN "raised" ELSE pc
               /\ raised' = IF exc THEN "IndexQueryError" ELSE raised
               /\ intent' = IF Truthy(match)
                            THEN [intent EXCEPT !.constraints[j].value = match]
                            ELSE intent
               /\ idx' = IF exc THEN idx ELSE j + 1
    /\ calls' = [calls EXCEPT !.find_similar = @ + 1]
    /\ UNCHANGED <<user_query, filters, on_status, parsed, entities,
                   corrected_query, corrections, company_map, corrected_models,
                   result, all_sqls, all_dfs, statusLog, sqlIntents, branch,
                   dbStatements, replayVars, harnessVars>>

\* lines 262-269: _get_corrected_models, one model mention
GetCorrectedModel ==
    /\ pc = "snap"
    /\ SnapLeft(intent, idx) = {}
    /\ Len(corrected_models) < Len(entities.models)
    /\ LET model == entities.models[Len(corrected_models) + 1]
           model_company == DetectModelCompany(model, company_map)
       IN \E match \in FindSimilarAnswers(model, "model", model_company) :
            LET es == Lookup(model, "model", model_company, match)
                exc == match.kind = "raise"
            IN /\ Replays(es)
               /\ trace' = trace \o es
               /\ lastMatch' = match
               /\ pc' = IF exc THEN "raised" ELSE pc
               /\ raised' = IF exc THEN "IndexQueryError" ELSE raised
               /\ corrected_models' =
                     IF exc THEN corrected_models
                     ELSE Append(corrected_models,
                                 IF Truthy(match) THEN match.s ELSE model)
    /\ calls' = [calls EXCEPT !.find_similar = @ + 1]
    /\ UNCHANGED <<user_query, filters, on_status, parsed, intent, entities,
                   corrected_query, corrections, company_map, idx, result,
                   all_sqls, all_dfs, statusLog, sqlIntents, branch,
                   dbStatements, replayVars, harnessVars>>

\* "if len(corrected_models) > 1" of process()
IsMultiModelQuiet(models) == Len(models) > 1 /\ ~on_status
IsMultiModel(models) == Len(models) > 1

\* "elif task == 'query'" of process()
IsQueryTaskAlways(task) == TRUE
IsQueryTask(task) == task = "query"

\* intent.get('Refusal_Reason', 'Please ask about mobile phones instead.')
RefusalReason(it) == IF it.hasRefusal THEN PyStr(it.refusal) ELSE RefusalFallback

\* lines 92-137 up to the call of a query branch: the task, the status notes,
\* and the general_qa, refusal and unknown-task outcomes
Dispatch ==
    /\ pc = "snap"
    /\ SnapLeft(intent, idx) = {}
    /\ Len(corrected_models) = Len(entities.models)
    /\ LET task == intent.task
           note == Status(statusLog,
                      IF task = "general_qa" THEN "Preparing explanation..."
                      ELSE IF corrected_models # <<>> THEN "Found phone(s) to compare"
                      ELSE "Searching database...")
           res == [result EXCEPT !.task = task]
       IN CASE task = "general_qa" ->
                 \E o \in NarrativeOutcomes :
                    LET r == AnswerGeneral(o)
                        es == <<Call("answer_general", [text |-> corrected_query], o)>>
                    IN /\ Replays(es)
                       /\ trace' = trace \o es
                       /\ branch' = "general_qa"
                       /\ statusLog' = Status(note, "Generating detailed explanation...")
                       /\ calls' = [calls EXCEPT !.answer_general = @ + 1]
                       /\ raised' = r.raises
                       /\ pc' = IF r.raises # "" THEN "raised" ELSE "done"
                       /\ result' = IF r.raises # "" THEN res
                                    ELSE [res EXCEPT !.content = r.value]
            [] task # "general_qa" /\ IsQueryTask(task) ->
                 /\ branch' = IF IsMultiModel(corrected_models) THEN "multi" ELSE "single"
                 /\ statusLog' = Status(note, "Searching our phone database...")
                 /\ pc' = IF IsMultiModel(corrected_models) THEN "multi" ELSE "single"
                 /\ result' = res
                 /\ UNCHANGED <<calls, raised, trace>>
            [] task # "general_qa" /\ ~IsQueryTask(task) /\ task = "refusal" ->
                 /\ branch' = "refusal"
                 /\ statusLog' = note
                 /\ pc' = "done"
                 /\ result' = [res EXCEPT
                                  !.content = FixedO(RefusalPrefix, RefusalReason(intent))]
                 /\ UNCHANGED <<calls, raised, trace>>
            [] OTHER ->
                 /\ branch' = "unknown"
                 /\ statusLog' = note
                 /\ pc' = "done"
                 /\ result' = [res EXCEPT !.content = FixedO(UnsupportedMsg, <<>>)]
                 /\ UNCHANGED <<calls, raised, trace>>
    /\ idx' = 1
    /\ UNCHANGED <<user_query, filters, on_status, parsed, intent, entities,
                   corrected_query, corrections, company_map, corrected_models,
                   all_sqls, all_dfs, lastMatch, sqlIntents, dbStatements,
                   replayVars, harnessVars>>

\* "sql_query.strip().lower().startswith('select')" evaluates to True; a
\* value without strip() never does
PassesSelectCheckAlways(sql_query) == TRUE
PassesSelectCheck(sql_query) ==
    sql_query.kind = "str" /\ StartsWithSelect(sql_query.s)

\* what evaluating that test raises: a pair has no attribute strip
SelectCheckRaises(sql_query) ==
    IF ~PassesSelectCheck(sql_query) /\ sql_query.kind # "str"
    THEN "AttributeError" ELSE ""

\* what follows "df = self.db.query(sql_query)" in _process_single_query, inside
\* its try: the empty result, or the summary; an exception of the store or of
\* summarize gives the fixed search error
SingleAfterSql(res, d, su) ==
    LET r2 == Summarize(su)
    IN CASE d.kind = "raise" ->
              [result |-> [res EXCEPT !.content = FixedO(SearchErrorMsg, <<>>)],
               notes |-> <<>>, summarized |-> FALSE]
         [] d.kind # "raise" /\ d.rows = <<>> ->
              [result |-> [res EXCEPT !.results = [set |-> TRUE, rows |-> d.rows],
                                      !.content = FixedO(NoPhonesMsg, <<>>)],
               notes |-> <<>>, summarized |-> FALSE]
         [] OTHER ->
              [result |-> [res EXCEPT
                              !.results = [set |-> TRUE, rows |-> d.rows],
                              !.content = IF r2.raises # ""
                                          THEN FixedO(SearchErrorMsg, <<>>)
                                          ELSE r2.value],
               notes |-> <<"Found phone(s)", "Creating detailed comparison...">>,
               summarized |-> TRUE]

RECURSIVE StatusAll(_, _)
StatusAll(log, msgs) ==
    IF msgs = <<>> THEN log ELSE StatusAll(Status(log, Head(msgs)), Tail(msgs))

\* _process_single_query(corrected_query, intent, result, status)
SingleQuery ==
    /\ pc = "single"
    /\ \E so \in SqlOutcomes :
         LET r == GenerateSql(so)
             sql_query == r.value
             res == [result EXCEPT !.sql = sql_query]
             gen == <<Call("generate_sql", intent, so)>>
             exc == IF r.raises # "" THEN r.raises ELSE SelectCheckRaises(sql_query)
         IN IF exc # ""
            THEN /\ Replays(gen)
                 /\ trace' = trace \o gen
                 /\ raised' = exc
                 /\ pc' = "raised"
                 /\ result' = IF r.raises # "" THEN result ELSE res
                 /\ statusLog' = statusLog
                 /\ calls' = [calls EXCEPT !.generate_sql = @ + 1]
                 /\ dbStatements' = dbStatements
            ELSE IF ~PassesSelectCheck(sql_query)
            THEN /\ Replays(gen)
                 /\ trace' = trace \o gen
                 /\ raised' = ""
                 /\ pc' = "done"
                 /\ result' = [res EXCEPT !.content = FixedO(BadQueryMsg, <<>>)]
                 /\ statusLog' = statusLog
                 /\ calls' = [calls EXCEPT !.generate_sql = @ + 1]
                 /\ dbStatements' = dbStatements
            ELSE \E d \in DbOutcomes, su \in NarrativeOutcomes :
                    LET after == SingleAfterSql(res, d, su)
                        es == gen
                              \o <<Call("db_query", sql_query, d)>>
                              \o (IF after.summarized
                                  THEN <<Call("summarize",
                                              [text |-> corrected_query, rows |-> d.rows],
                                              su)>>
                                  ELSE <<>>)
                    IN /\ Replays(es)
                       /\ trace' = trace \o es
                       /\ raised' = ""
                       /\ pc' = "done"
                       /\ result' = after.result
                       /\ statusLog' = StatusAll(statusLog, after.notes)
                       /\ calls' = [calls EXCEPT
                                       !.generate_sql = @ + 1,
                                       !.db_query = @ + 1,
                                       !.summarize = IF after.summarized
                                                     THEN @ + 1 ELSE @]
                       /\ dbStatements' = Append(dbStatements, sql_query)
    /\ sqlIntents' = Append(sqlIntents, intent)
    /\ UNCHANGED <<user_query, filters, on_status, parsed, intent, entities,
                   corrected_query, corrections, company_map, corrected_models,
                   idx, all_sqls, all_dfs, lastMatch, branch, replayVars,
                   harnessVars>>

\* single_intent of _process_multi_model, after _normalize_intent
SingleIntentWithFilters(model_name) ==
    NormalizeIntent(
        MergeFilters(
            [task |-> "query", hasConstraints |-> TRUE,
             constraints |-> <<Constraint(ModelName, "==", StrV(model_name))>>,
             hasEntities |-> FALSE, entities |-> NoEntities,
             priority_features |-> intent.priority_features,
             hasRefusal |-> FALSE, refusal |-> NoneV, error |-> FALSE],
            filters))
SingleIntent(model_name) ==
    NormalizeIntent(
        [task |-> "query", hasConstraints |-> TRUE,
         constraints |-> <<Constraint(ModelName, "==", StrV(model_name))>>,
         hasEntities |-> FALSE, entities |-> NoEntities,
         priority_features |-> "", hasRefusal |-> FALSE, refusal |-> NoneV,
         error |-> FALSE])

\* lines 306-320: the merge of the per-model results and the summary, or the
\* fixed not-found message
MultiFinish(res, sqls, dfs, su) ==
    LET df == DropDuplicates(Concat(dfs))
        r2 == Summarize(su)
        joined == [res EXCEPT !.sql = FixedO("joined", <<>>)]
    IN IF dfs # <<>>
       THEN [raises |-> r2.raises,
             result |-> [joined EXCEPT !.results = [set |-> TRUE, rows |-> df],
                                       !.content = IF r2.raises # "" THEN @
                                                   ELSE r2.value],
             rows |-> df,
             notes |-> <<"Found phone(s)", "Creating detailed comparison...">>,
             summarized |-> TRUE]
       ELSE [raises |-> "",
             result |-> [joined EXCEPT !.content = FixedO(NotFoundMsg, <<>>)],
             rows |-> <<>>,
             notes |-> <<>>, summarized |-> FALSE]

\* lines 293-304 of the loop body: the SELECT check, the store call and its
\* try/except; found = rows came back, note = the status note
MultiExecute(sql_query, d) ==
    IF ~PassesSelectCheck(sql_query)
    THEN [queried |-> FALSE, found |-> FALSE, note |-> <<>>]
    ELSE IF d.kind = "raise"
    THEN [queried |-> TRUE, found |-> FALSE, note |-> <<"Couldn't find data for model">>]
    ELSE IF d.rows # <<>>
    THEN [queried |-> TRUE, found |-> TRUE, note |-> <<"Found: model">>]
    ELSE [queried |-> TRUE, found |-> FALSE, note |-> <<>>]

\* _process_multi_model: one iteration of "for model_name in models", and after
\* the last one the lines that follow the loop
MultiModelStep ==
    /\ pc = "multi"
    /\ idx <= Len(corrected_models)
    /\ \E so \in SqlOutcomes :
         LET model_name == corrected_models[idx]
             r == GenerateSql(so)
             sql_query == r.value
             sqls == Append(all_sqls, [model |-> model_name, sql |-> sql_query])
             gen == <<Call("generate_sql", SingleIntent(model_name), so)>>
             exc == IF r.raises # "" THEN r.raises ELSE SelectCheckRaises(sql_query)
             last == idx = Len(corrected_models)
         IN /\ sqlIntents' = Append(sqlIntents, SingleIntent(model_name))
            /\ IF exc # ""
               THEN /\ Replays(gen)
                    /\ trace' = trace \o gen
                    /\ raised' = exc
                    /\ pc' = "raised"
                    /\ all_sqls' = IF r.raises # "" THEN all_sqls ELSE sqls
                    /\ calls' = [calls EXCEPT !.generate_sql = @ + 1]
                    /\ UNCHANGED <<all_dfs, result, statusLog, dbStatements>>
               ELSE \E d \in DbOutcomes, su \in NarrativeOutcomes :
                       LET ex == MultiExecute(sql_query, d)
                           dfs == IF ex.found THEN Append(all_dfs, d.rows) ELSE all_dfs
                           fin == MultiFinish(result, sqls, dfs, su)
                           es == gen
                                 \o (IF ex.queried
                                     THEN <<Call("db_query", sql_query, d)>> ELSE <<>>)
                                 \o (IF last /\ fin.summarized
                                     THEN <<Call("summarize",
                                                 [text |-> corrected_query,
                                                  rows |-> fin.rows],
                                                 su)>>
                                     ELSE <<>>)
                       IN /\ Replays(es)
                          /\ trace' = trace \o es
                          /\ all_sqls' = sqls
                          /\ all_dfs' = dfs
                          /\ dbStatements' = IF ex.queried
                                             THEN Append(dbStatements, sql_query)
                                             ELSE dbStatements
                          /\ raised' = IF last THEN fin.raises ELSE ""
                          /\ pc' = IF ~last THEN "multi"
                                   ELSE IF fin.raises # "" THEN "raised" ELSE "done"
                          /\ result' = IF last /\ fin.raises = ""
                                       THEN fin.result ELSE result
                          /\ statusLog' = StatusAll(StatusAll(statusLog, ex.note),
                                                    IF last THEN fin.notes ELSE <<>>)
                          /\ calls' = [calls EXCEPT
                                          !.generate_sql = @ + 1,
                                          !.db_query = IF ex.queried THEN @ + 1 ELSE @,
                                          !.summarize = IF last /\ fin.summarized
                                                        THEN @ + 1 ELSE @]
    /\ idx' = idx + 1
    /\ UNCHANGED <<user_query, filters, on_status, parsed, intent, entities,
                   corrected_query, corrections, company_map, corrected_models,
                   lastMatch, branch, replayVars, harnessVars>>

Next ==
    \/ ParseIntentStep
    \/ CorrectCompany
    \/ CorrectModel
    \/ MergeAndNormalize
    \/ SnapModelName
    \/ GetCorrectedModel
    \/ Dispatch
    \/ SingleQuery
    \/ MultiModelStep

Spec == Init /\ [][Next]_vars

-----------------------------------------------------------------------------
(* The same request twice: first without an on_status callback, then with  *)
(* one, the collaborators answering the second run's calls as they         *)
(* answered the first run's.                                               *)

\* process() has returned or raised; the caller calls it again with the same
\* query and filters and a callback
Rerun ==
    /\ pc \in {"done", "raised"}
    /\ ~on_status
    /\ earlier.twice
    /\ ~earlier.done
    /\ earlier' = [twice |-> TRUE, done |-> TRUE, branch |-> branch, raised |-> raised,
                   pc |-> pc, result |-> result, trace |-> trace]
    /\ replay' = trace
    /\ on_status' = TRUE
    /\ pc' = Entry.pc
    /\ parsed' = Entry.parsed
    /\ intent' = Entry.intent
    /\ entities' = Entry.entities
    /\ corrected_query' = Entry.corrected_query
    /\ corrections' = Entry.corrections
    /\ company_map' = Entry.company_map
    /\ corrected_models' = Entry.corrected_models
    /\ idx' = Entry.idx
    /\ result' = Entry.result
    /\ all_sqls' = Entry.all_sqls
    /\ all_dfs' = Entry.all_dfs
    /\ calls' = Entry.calls
    /\ statusLog' = Entry.statusLog
    /\ lastMatch' = Entry.lastMatch
    /\ sqlIntents' = Entry.sqlIntents
    /\ branch' = Entry.branch
    /\ raised' = Entry.raised
    /\ trace' = Entry.trace
    /\ dbStatements' = Entry.dbStatements
    /\ UNCHANGED <<user_query, filters, harnessVars>>

\* the first run: no callback, an untouched sidebar
StatusInit ==
    /\ Start([NoRun EXCEPT !.twice = TRUE])
    /\ ~on_status
    /\ filters = NoFilters

StatusNext ==
    \/ ParseIntentStep
    \/ CorrectCompany
    \/ CorrectModel
    \/ MergeAndNormalize
    \/ SnapModelName
    \/ GetCorrectedModel
    \/ Dispatch
    \/ SingleQuery
    \/ MultiModelStep
    \/ Rerun

SpecStatus == StatusInit /\ [][StatusNext]_vars

-----------------------------------------------------------------------------
(* _merge_filters on its own: every intent and filter set below is merged  *)
(* once, and then once more.                                               *)

MergeConstraints ==
    { Constraint(Price, "<=", NumV(30000)),
      Constraint(Price, "<=", NumV(20000)),
      Constraint(Price, ">=", NumV(10000)),
      Constraint(CompanyName, "==", StrV(Ap)),
      Constraint(ModelName, "==", StrV(<<"P", "x">>)) }

MergeIntents ==
    { [NoIntent EXCEPT !.constraints = cs] :
          cs \in SeqsUpTo(MergeConstraints, MaxMergeConstraints) }
    \cup { [NoIntent EXCEPT !.hasConstraints = FALSE] }

\* filter sets with absent (None), zero and empty-string values among them
MergeFilterSets ==
    { [NoFilters EXCEPT !.company = c, !.price_min = lo, !.price_max = hi,
                        !.camera_min = cam, !.battery_max = bat] :
          c \in {NoneV, StrV(<<>>), StrV(Sa)},
          lo \in {NoneV, NumV(0)},
          hi \in {NoneV, NumV(50000)},
          cam \in {NoneV, NumV(48)},
          bat \in {NoneV, NumV(5000)} }

MergeInit ==
    /\ pc = "merge_input"
    /\ user_query \in UserQueries
    /\ filters \in MergeFilterSets
    /\ on_status = FALSE
    /\ intent \in MergeIntents
    /\ parsed = intent
    /\ entities = NoEntities
    /\ corrected_query = <<>>
    /\ corrections = <<>>
    /\ company_map = <<>>
    /\ corrected_models = <<>>
    /\ idx = 1
    /\ result = EmptyResult
    /\ all_sqls = <<>>
    /\ all_dfs = <<>>
    /\ calls = NoCalls
    /\ statusLog = <<>>
    /\ lastMatch = NoneV
    /\ sqlIntents = <<>>
    /\ branch = ""
    /\ raised = ""
    /\ trace = <<>>
    /\ dbStatements = <<>>
    /\ replay = <<>>
    /\ earlier = NoRun
    /\ HarnessIdle

\* self._merge_filters(intent, filters)
MergeOnce ==
    /\ pc = "merge_input"
    /\ intent' = MergeFilters(intent, filters)
    /\ pc' = "merged"
    /\ UNCHANGED <<user_query, filters, on_status, parsed, entities,
                   corrected_query, corrections, company_map, corrected_models,
                   idx, result, all_sqls, all_dfs, calls, statusLog, lastMatch,
                   sqlIntents, branch, raised, trace, dbStatements,
                   replayVars, harnessVars>>

\* self._merge_filters(intent, filters), a second time
MergeAgain ==
    /\ pc = "merged"
    /\ intent' = MergeFilters(intent, filters)
    /\ pc' = "merged_twice"
    /\ UNCHANGED <<user_query, filters, on_status, parsed, entities,
                   corrected_query, corrections, company_map, corrected_models,
                   idx, result, all_sqls, all_dfs, calls, statusLog, lastMatch,
                   sqlIntents, branch, raised, trace, dbStatements,
                   replayVars, harnessVars>>

MergeNext == MergeOnce \/ MergeAgain

SpecMerge == MergeInit /\ [][MergeNext]_vars

-----------------------------------------------------------------------------
(* APIErrorHandler.handle_with_retry as LLMClient._post calls it, and what *)
(* _post makes of its return value.                                        *)

\* max_retries, retry_delay of the call in _post; backoff_factor's default;
\* the Retry-After assumed when the header is absent
MaxRetries == 2
RetryDelay == 2
BackoffFactor == 2
DefaultRetryAfter == 60

RECURSIVE Power(_, _)
Power(b, n) == IF n = 0 THEN 1 ELSE b * Power(b, n - 1)

\* what one call of func() = make_request comes to: a JSON body (truthy, or
\* falsy as {} is), an HTTPError of raise_for_status with the response's
\* status and Retry-After header, another RequestException (ConnectionError,
\* Timeout, the ContentDecodingError of a body whose encoding is broken, the
\* JSONDecodeError that resp.json() raises on a body that is not JSON), or an
\* exception that is no RequestException (with a requests release older than
\* 2.27 resp.json() raises such a ValueError instead)
Ok(body) ==
    [kind |-> "ok", body |-> body, status |-> 200, header |-> NoneV, class |-> ""]
HttpError(status, header) ==
    [kind |-> "http", body |-> "", status |-> status, header |-> header,
     class |-> "HTTPError"]
RequestException(class) ==
    [kind |-> "request_exception", body |-> "", status |-> 0, header |-> NoneV,
     class |-> class]
OtherException(class) ==
    [kind |-> "exception", body |-> "", status |-> 0, header |-> NoneV,
     class |-> class]

\* a Retry-After header: absent, a number of seconds, or an HTTP date
RetryAfterHeaders == { NoneV, StrV(<<"7">>), StrV(<<"F", "r", "i">>) }

FuncOutcomes ==
    { Ok("json"), Ok("falsy") }
    \cup { HttpError(429, h) : h \in RetryAfterHeaders }
    \cup { HttpError(500, NoneV) }
    \cup { RequestException(c) :
               c \in {"ConnectionError", "Timeout", "ContentDecodingError",
                      "JSONDecodeError"} }
    \cup { OtherException("ValueError") }

\* bool(response) of requests.Response is response.ok: False from status 400 on
ResponseTruthy(status) == status < 400

\* int(x) for a header value
IntOf(h) ==
    IF h = StrV(<<"7">>) THEN [raises |-> "", n |-> 7]
    ELSE [raises |-> "ValueError", n |-> 0]

\* classify_error(exception, response): the ErrorType
ClassifyError(o, with_response) ==
    IF with_response /\ ResponseTruthy(o.status) /\ o.status = 429 THEN "rate_limit"
    ELSE IF with_response /\ ResponseTruthy(o.status) /\ o.status = 500 THEN "api_error"
    ELSE IF o.class = "ConnectionError" THEN "network_error"
    ELSE IF o.class = "Timeout" THEN "timeout"
    \* "429" in str(exception): "429 Client Error: Too Many Requests for url"
    ELSE IF o.kind = "http" /\ o.status = 429 THEN "rate_limit"
    ELSE "unknown"

NoError == [type |-> "none", retry_after |-> NoneV]
ErrorInfo(type, retry_after) == [type |-> type, retry_after |-> retry_after]

\* the pair (result, error_info) a function returns, or the exception it raises
Returned(res, error) == [raises |-> "", result |-> res, error |-> error]
Raised(exc) == [raises |-> exc, result |-> "", error |-> NoError]

\* one iteration of "for attempt in range(max_retries + 1)": next is
\* "continue" after a sleep of delay seconds, or the value returned or raised
Iteration(o, att) ==
    CASE o.kind = "ok" ->
            [next |-> "return", delay |-> 0, value |-> Returned(o.body, NoError)]
      [] o.kind = "http" ->
            IF ResponseTruthy(o.status) /\ o.status = 429
            THEN IF att >= MaxRetries
                 THEN LET ra == IF o.header.kind = "none"
                                THEN [raises |-> "", n |-> DefaultRetryAfter]
                                ELSE IntOf(o.header)
                      IN [next |-> "return", delay |-> 0,
                          value |-> IF ra.raises # "" THEN Raised(ra.raises)
                                    ELSE Returned("", ErrorInfo(ClassifyError(o, TRUE),
                                                                NumV(ra.n)))]
                 ELSE LET ra == IF o.header.kind = "none"
                                THEN [raises |-> "",
                                      n |-> RetryDelay * Power(BackoffFactor, att)]
                                ELSE IntOf(o.header)
                      IN IF ra.raises # ""
                         THEN [next |-> "return", delay |-> 0, value |-> Raised(ra.raises)]
                         ELSE [next |-> "continue", delay |-> ra.n, value |-> NoneV]
            ELSE [next |-> "return", delay |-> 0,
                  value |-> Returned("", ErrorInfo(ClassifyError(o, TRUE), NoneV))]
      [] o.kind = "request_exception" ->
            IF att < MaxRetries
            THEN [next |-> "continue",
                  delay |-> RetryDelay * Power(BackoffFactor, att), value |-> NoneV]
            ELSE [next |-> "return", delay |-> 0,
                  value |-> Returned("", ErrorInfo(ClassifyError(o, FALSE), NoneV))]
      [] OTHER ->
            [next |-> "return", delay |-> 0,
             value |-> Returned("", ErrorInfo(ClassifyError(o, FALSE), NoneV))]

\* "if result: return result, None / else: return None, error_info" of _post;
\* None is the error_info of a falsy body
Post(ret) ==
    IF ret.raises # "" THEN ret
    ELSE IF ret.result = "json" THEN Returned("json", NoError)
    ELSE Returned("", ret.error)

\* the state of the pipeline while a harness runs
PipelineIdle ==
    /\ user_query \in UserQueries
    /\ filters = NoFilters
    /\ on_status = FALSE
    /\ parsed = Entry.parsed
    /\ intent = Entry.intent
    /\ entities = Entry.entities
    /\ corrected_query = Entry.corrected_query
    /\ corrections = Entry.corrections
    /\ company_map = Entry.company_map
    /\ corrected_models = Entry.corrected_models
    /\ idx = Entry.idx
    /\ result = Entry.result
    /\ all_sqls = Entry.all_sqls
    /\ all_dfs = Entry.all_dfs
    /\ calls = Entry.calls
    /\ statusLog = Entry.statusLog
    /\ lastMatch = Entry.lastMatch
    /\ sqlIntents = Entry.sqlIntents
    /\ branch = Entry.branch
    /\ raised = Entry.raised
    /\ trace = Entry.trace
    /\ dbStatements = Entry.dbStatements
    /\ replay = <<>>
    /\ earlier = NoRun

pipelineLocals ==
    <<user_query, filters, on_status, parsed, intent, entities,
      corrected_query, corrections, company_map, corrected_models, idx,
      result, all_sqls, all_dfs, calls, statusLog, lastMatch, sqlIntents,
      branch, raised, trace, dbStatements>>

RetryInit ==
    /\ pc = "retry"
    /\ PipelineIdle
    /\ HarnessIdle

\* lines 137-189: one pass through the loop body
RetryAttempt ==
    /\ pc = "retry"
    /\ attempt <= MaxRetries
    /\ \E o \in FuncOutcomes :
         LET it == Iteration(o, attempt)
         IN /\ outcomes' = Append(outcomes, o)
            /\ sleeps' = IF it.next = "continue" THEN Append(sleeps, it.delay)
                         ELSE sleeps
            /\ attempt' = IF it.next = "continue" THEN attempt + 1 ELSE attempt
            /\ returned' = it.value
            /\ pc' = IF it.next = "continue" THEN "retry" ELSE "retry_returned"
    /\ UNCHANGED <<pipelineLocals, replayVars, call, sessionVars, storeVars>>

\* lines 48-60 of _post after handle_with_retry has returned
PostReturn ==
    /\ pc = "retry_returned"
    /\ returned' = Post(returned)
    /\ pc' = "post_returned"
    /\ UNCHANGED <<pipelineLocals, replayVars, attempt, outcomes, sleeps, call,
                   sessionVars, storeVars>>

RetryNext == RetryAttempt \/ PostReturn

SpecRetry == RetryInit /\ [][RetryNext]_vars

-----------------------------------------------------------------------------
(* VectorClient.find_similar on its own: one call for every input text,    *)
(* filter pair, embedding outcome and index answer below.                  *)

MatchQueries == { <<>>, <<"a", "p">>, <<"p", "1">> }

\* type_filter: None (""), 'company' or 'model'
TypeFilters == {"", "company", "model"}

CompanyFilters == { NoneV, StrV(<<>>), StrV(Ap) }

MatchCalls ==
    UNION { { [query |-> q, type_filter |-> tf, company_filter |-> cf,
               embedding_ok |-> ok, ia |-> ia] :
                 q \in MatchQueries, ok \in BOOLEAN, ia \in IndexAnswers(tf, cf) } :
            tf \in TypeFilters, cf \in CompanyFilters }

MatchInit ==
    /\ pc = "match_input"
    /\ PipelineIdle
    /\ attempt = 0
    /\ outcomes = <<>>
    /\ sleeps = <<>>
    /\ returned = NoneV
    /\ call \in MatchCalls
    /\ SessionIdle
    /\ StoreIdle

\* self.vector.find_similar(query, type_filter, company_filter)
FindSimilarCall ==
    /\ pc = "match_input"
    /\ returned' = FindSimilar(call.query, call.embedding_ok, call.ia)
    /\ pc' = "matched"
    /\ UNCHANGED <<pipelineLocals, replayVars, attempt, outcomes, sleeps, call,
                   sessionVars, storeVars>>

MatchNext == FindSimilarCall

SpecMatch == MatchInit /\ [][MatchNext]_vars

-----------------------------------------------------------------------------
(* LLMClient.summarize on its own: the rows it serializes into the prompt  *)
(* and the rows it builds buy links for.                                   *)

\* df_unique.head(4)
SummaryCap == 4

\* longest result handed to summarize
MaxSummaryRows == 6

\* the harness variables of handle_with_retry at rest
RetryIdle ==
    /\ attempt = 0
    /\ outcomes = <<>>
    /\ sleeps = <<>>

M3 == <<"M", "3">>
M4 == <<"M", "4">>

\* result rows: four models, a row without a model name, and a second row of
\* model P1 that differs from the first in company and price
SummaryInputRows ==
    { [company |-> Ap, model |-> P1, price |-> 30000],
      [company |-> Sa, model |-> G2, price |-> 50000],
      [company |-> Ap, model |-> M3, price |-> 30000],
      [company |-> Sa, model |-> M4, price |-> 50000],
      [company |-> Ap, model |-> <<>>, price |-> 30000],
      [company |-> Sa, model |-> P1, price |-> 50000] }

\* df.drop_duplicates(subset=["Model Name"], keep="first")
KeepAllRows(rows) == rows
RECURSIVE DropDuplicateModels(_)
DropDuplicateModels(rows) ==
    IF rows = <<>> THEN <<>>
    ELSE LET init == DropDuplicateModels(SubSeq(rows, 1, Len(rows) - 1))
             last == rows[Len(rows)]
         IN IF \E i \in DOMAIN init : init[i].model = last.model
            THEN init ELSE Append(init, last)

\* df.head(n)
HeadRows(rows, n) == SubSeq(rows, 1, IF Len(rows) < n THEN Len(rows) ELSE n)

\* _generate_buy_links(df): the search text of every row whose model is truthy
RECURSIVE GenerateBuyLinks(_)
GenerateBuyLinks(rows) ==
    IF rows = <<>> THEN <<>>
    ELSE LET row == Head(rows)
             search_query == Strip(row.company \o <<" ">> \o row.model)
         IN (IF row.model = <<>> THEN <<>> ELSE <<search_query>>)
            \o GenerateBuyLinks(Tail(rows))

\* summarize(user_query, df) for one outcome of the oracle call: the fields of
\* the prompt, the buy links appended to the narrative, and the pair returned
SummarizeCall(text, df, o) ==
    LET df_unique == DropDuplicateModels(df)
        df_limited == HeadRows(df_unique, SummaryCap)
        r == Summarize(o)
    IN [prompt |-> [num_phones |-> Len(df_limited), user_query |-> text,
                    total_results |-> Len(df), df_json |-> df_limited],
        buy_links |-> IF o.kind = "text" THEN GenerateBuyLinks(df_limited) ELSE <<>>,
        raises |-> r.raises,
        value |-> r.value]

SummarizeInit ==
    /\ pc = "summarize_input"
    /\ PipelineIdle
    /\ RetryIdle
    /\ returned = NoneV
    /\ call \in { [user_query |-> user_query, df |-> df] :
                      df \in SeqsUpTo(SummaryInputRows, MaxSummaryRows) }
    /\ SessionIdle
    /\ StoreIdle

\* self.llm.summarize(query, df)
SummarizeStep ==
    /\ pc = "summarize_input"
    /\ \E o \in NarrativeOutcomes :
         returned' = SummarizeCall(call.user_query, call.df, o)
    /\ pc' = "summarized"
    /\ UNCHANGED <<pipelineLocals, replayVars, attempt, outcomes, sleeps, call,
                   sessionVars, storeVars>>

SummarizeNext == SummarizeStep

SpecSummarize == SummarizeInit /\ [][SummarizeNext]_vars

-----------------------------------------------------------------------------
(* DatabaseClient.query and DatabaseClient.execute on their own: any       *)
(* sequence of calls, each with every way it can end.                      *)

\* most calls made on one DatabaseClient
MaxDbCalls == 3

\* how a call goes: sqlite3.connect raises, the statement raises
\* (pd.read_sql_query, conn.cursor, cur.execute), conn.commit raises, or
\* nothing does
QueryOutcomes == {"connect_error", "statement_error", "ok"}
ExecuteOutcomes == {"connect_error", "statement_error", "commit_error", "ok"}

\* "finally: conn.close()": the connection made last is closed, however the
\* try block was left
CloseOnSuccessOnly(conns, failed) ==
    IF failed THEN conns ELSE [conns EXCEPT ![Len(conns)].open = FALSE]
Finally(conns, failed) == [conns EXCEPT ![Len(conns)].open = FALSE]

\* one call of query (op = "query") or execute (op = "execute") that goes as
\* o says: the connections afterwards, and the record of the call with the
\* connection it made (0 when it made none) and the exception that left it
DbCall(op, o, conns) ==
    IF o = "connect_error"
    THEN [connections |-> conns,
          record |-> [op |-> op, outcome |-> o, conn |-> 0,
                      raises |-> "OperationalError"]]
    ELSE LET conn == Len(conns) + 1
             opened == Append(conns, [open |-> TRUE])
         IN [connections |-> Finally(opened, o # "ok"),
             record |-> [op |-> op, outcome |-> o, conn |-> conn,
                         raises |-> IF o = "ok" THEN "" ELSE "DatabaseError"]]

StoreInit ==
    /\ pc = "store"
    /\ PipelineIdle
    /\ RetryIdle
    /\ returned = NoneV
    /\ call = NoneV
    /\ SessionIdle
    /\ StoreIdle

\* db.query(sql, params)
DbQuery ==
    /\ pc = "store"
    /\ Len(dbCalls) < MaxDbCalls
    /\ \E o \in QueryOutcomes :
         LET r == DbCall("query", o, connections)
         IN /\ connections' = r.connections
            /\ dbCalls' = Append(dbCalls, r.record)
    /\ UNCHANGED <<pc, pipelineLocals, replayVars, attempt, outcomes, sleeps,
                   returned, call, sessionVars>>

\* db.execute(sql, params)
DbExecute ==
    /\ pc = "store"
    /\ Len(dbCalls) < MaxDbCalls
    /\ \E o \in ExecuteOutcomes :
         LET r == DbCall("execute", o, connections)
         IN /\ connections' = r.connections
            /\ dbCalls' = Append(dbCalls, r.record)
    /\ UNCHANGED <<pc, pipelineLocals, replayVars, attempt, outcomes, sleeps,
                   returned, call, sessionVars>>

StoreNext == DbQuery \/ DbExecute

SpecStore == StoreInit /\ [][StoreNext]_vars

-----------------------------------------------------------------------------
(* The company context of a lookup: _detect_model_company as the model     *)
(* lookups of _apply_corrections and _get_corrected_models call it, and    *)
(* the filter find_similar builds from its arguments.                      *)

\* most companies resolved in one request
MaxResolved == 2

\* company_map: lower-cased mention -> the name the matcher answered
ResolvedCompanies ==
    { <<k, v>> : k \in { <<"a", "p">>, <<"a", "x">>, <<"s", "a">> },
                 v \in {Ap, Sa} }

CompanyMaps ==
    { m \in SeqsUpTo(ResolvedCompanies, MaxResolved) :
          \A i, j \in DOMAIN m : i # j => m[i][1] # m[j][1] }

\* model mentions: "p1" names no company, "apx" and "Sa g2" contain a
\* catalog name, "ax1" contains a mention as the user typed it
LookupMentions ==
    { <<"p", "1">>, <<"a", "p", "x">>, <<"S", "a", " ", "g", "2">>,
      <<"a", "x", "1">> }

\* filter_dict of find_similar: "type" and "company" are keys only when set
FilterDict(type_filter, company_filter) ==
    [hasType |-> type_filter # "",
     type |-> type_filter,
     hasCompany |-> Truthy(company_filter) /\ type_filter = "model",
     company |-> IF Truthy(company_filter) /\ type_filter = "model"
                 THEN Lower(company_filter.s) ELSE <<>>]

NoFilterDict == [hasType |-> FALSE, type |-> "", hasCompany |-> FALSE, company |-> <<>>]

\* a model lookup about to detect its company, or a find_similar call with
\* arguments of any caller
LookupInit ==
    /\ \/ /\ pc = "detect_input"
          /\ company_map \in CompanyMaps
          /\ call \in { [site |-> "model_lookup", query |-> m, type_filter |-> "model",
                         company_filter |-> NoneV] : m \in LookupMentions }
       \/ /\ pc = "lookup_input"
          /\ company_map = <<>>
          /\ call \in { [site |-> "direct", query |-> m, type_filter |-> tf,
                         company_filter |-> cf] :
                           m \in LookupMentions, tf \in TypeFilters,
                           cf \in CompanyFilters }
    /\ user_query \in UserQueries
    /\ filters = NoFilters
    /\ on_status = FALSE
    /\ parsed = Entry.parsed
    /\ intent = Entry.intent
    /\ entities = Entry.entities
    /\ corrected_query = Entry.corrected_query
    /\ corrections = Entry.corrections
    /\ corrected_models = Entry.corrected_models
    /\ idx = Entry.idx
    /\ result = Entry.result
    /\ all_sqls = Entry.all_sqls
    /\ all_dfs = Entry.all_dfs
    /\ calls = Entry.calls
    /\ statusLog = Entry.statusLog
    /\ lastMatch = Entry.lastMatch
    /\ sqlIntents = Entry.sqlIntents
    /\ branch = Entry.branch
    /\ raised = Entry.raised
    /\ trace = Entry.trace
    /\ dbStatements = Entry.dbStatements
    /\ replay = <<>>
    /\ earlier = NoRun
    /\ RetryIdle
    /\ returned = NoFilterDict
    /\ SessionIdle
    /\ StoreIdle

\* lines 168 and 264: model_company = self._detect_model_company(model, company_map)
DetectCompany ==
    /\ pc = "detect_input"
    /\ call' = [call EXCEPT !.company_filter = DetectModelCompany(call.query, company_map)]
    /\ pc' = "lookup_input"
    /\ UNCHANGED <<pipelineLocals, replayVars, attempt, outcomes, sleeps,
                   returned, sessionVars, storeVars>>

\* lines 104-109 of find_similar
BuildFilter ==
    /\ pc = "lookup_input"
    /\ returned' = FilterDict(call.type_filter, call.company_filter)
    /\ pc' = "filtered"
    /\ UNCHANGED <<pipelineLocals, replayVars, attempt, outcomes, sleeps, call,
                   sessionVars, storeVars>>

LookupNext == DetectCompany \/ BuildFilter

SpecLookup == LookupInit /\ [][LookupNext]_vars

-----------------------------------------------------------------------------
(* _add_to_history on its own: any sequence of calls on a fresh session,   *)
(* the while loop one iteration at a time.                                 *)

MAX_HISTORY == 5

\* most _add_to_history calls in one session
MaxHistoryCalls == 8

\* sum(1 for m in chat_history if m["role"] == "user")
UserCount(h) == Cardinality({ i \in DOMAIN h : h[i].role = "user" })

\* list.pop(i), i counted from 1
Pop(h, i) == SubSeq(h, 1, i - 1) \o SubSeq(h, i + 1, Len(h))

\* one iteration of "while user_count > MAX_HISTORY": the for loop pops the
\* first entry with role user, and the entry that took its place when that
\* one has role assistant; without a user entry the for loop changes nothing
TrimOldestUserOnly(h) ==
    IF UserCount(h) = 0 THEN h
    ELSE Pop(h, Min({ k \in DOMAIN h : h[k].role = "user" }))
TrimOldest(h) ==
    IF UserCount(h) = 0 THEN h
    ELSE LET i == Min({ k \in DOMAIN h : h[k].role = "user" })
             popped == Pop(h, i)
         IN IF i <= Len(popped) /\ popped[i].role = "assistant"
            THEN Pop(popped, i)
            ELSE popped

\* the whole while loop
RECURSIVE Trimmed(_)
Trimmed(h) == IF UserCount(h) > MAX_HISTORY THEN Trimmed(TrimOldest(h)) ELSE h

\* _add_to_history(role, content) as one step
AddToHistory(h, role, content) ==
    Trimmed(Append(h, [role |-> role, content |-> content]))

HistoryInit ==
    /\ pc = "history"
    /\ PipelineIdle
    /\ RetryIdle
    /\ returned = NoneV
    /\ call = [n |-> 0, role |-> ""]
    /\ SessionIdle
    /\ StoreIdle

\* lines 37-43: the entry is appended and the user entries are counted;
\* content is the number of the call
AppendEntry ==
    /\ pc = "history"
    /\ call.n < MaxHistoryCalls
    /\ \E role \in {"user", "assistant"} :
         /\ call' = [n |-> call.n + 1, role |-> role]
         /\ chat_history' =
               Append(chat_history, [role |-> role, content |-> call.n + 1])
    /\ pc' = IF UserCount(chat_history') > MAX_HISTORY THEN "trim" ELSE "history"
    /\ UNCHANGED <<pipelineLocals, replayVars, attempt, outcomes, sleeps,
                   returned, query_cache, current_response, processCalls,
                   storeVars>>

\* lines 44-51: one iteration of the while loop
TrimStep ==
    /\ pc = "trim"
    /\ chat_history' = TrimOldest(chat_history)
    /\ pc' = IF UserCount(chat_history') > MAX_HISTORY THEN "trim" ELSE "history"
    /\ UNCHANGED <<pipelineLocals, replayVars, attempt, outcomes, sleeps,
                   returned, call, query_cache, current_response, processCalls,
                   storeVars>>

HistoryNext == AppendEntry \/ TrimStep

\* a call that has started runs on: the loop is not suspended
SpecHistory == HistoryInit /\ [][HistoryNext]_vars /\ WF_vars(TrimStep)

-----------------------------------------------------------------------------
(* render(filters) of the query tab: a session in which queries are        *)
(* submitted and the Clear button is pressed, process() being one call     *)
(* that returns an envelope or raises.                                     *)

\* most form submissions (Ask or Clear) in one session
MaxSubmits == 3

\* "Ap" and " ap " differ in case and surrounding blanks only
SessionQueries ==
    { <<"A", "p">>, <<" ", "a", "p", " ">>, <<"p", "1">>, <<>> }

\* _get_cache_key(query, filters): the digest of the lower-cased, stripped
\* query and the sorted filter items; the model keeps the digested text, two
\* texts with one digest being left out
GetCacheKey(query, f) == <<Strip(Lower(query)), f>>

\* query_cache.get(cache_key): the stored response, NoneO without one
CacheGet(cache, key) ==
    IF \E i \in DOMAIN cache : cache[i][1] = key
    THEN cache[CHOOSE i \in DOMAIN cache : cache[i][1] = key][2]
    ELSE NoneO

\* "if cached": an envelope is a dict of five keys and truthy, None is not
CacheHitNever(cached) == FALSE
CacheHit(cached) == cached # NoneO

\* what process() comes to: one of the envelopes it returns (the apology, a
\* refusal, the unsupported-task message, a general answer or the error pair
\* in its place), or an exception
ProcessOutcomes ==
    { [raises |-> "", envelope |-> [EmptyResult EXCEPT !.content = FixedO(Apology, <<>>)]],
      [raises |-> "",
       envelope |-> [EmptyResult EXCEPT
                        !.task = "refusal",
                        !.content = FixedO(RefusalPrefix, RefusalFallback)]],
      [raises |-> "",
       envelope |-> [EmptyResult EXCEPT
                        !.task = "general_qa",
                        !.content = PairO(NoneV, "rate_limit")]],
      [raises |-> "AttributeError", envelope |-> EmptyResult] }

SessionInit ==
    /\ pc = "session"
    /\ PipelineIdle
    /\ RetryIdle
    /\ returned = NoneV
    /\ call = [n |-> 0, button |-> "", query |-> <<>>, filters |-> NoFilters]
    /\ SessionIdle
    /\ StoreIdle

\* lines 190-221: a run of render with submit set; a run with an empty query
\* changes nothing in the session
Submit ==
    /\ pc = "session"
    /\ call.n < MaxSubmits
    /\ \E query \in SessionQueries \ {<<>>}, f \in RequestFilters :
         LET cache_key == GetCacheKey(query, f)
             cached == CacheGet(query_cache, cache_key)
             asked == AddToHistory(chat_history, "user", TextO(query))
         IN /\ call' = [n |-> call.n + 1, button |-> "ask", query |-> query,
                        filters |-> f]
            /\ IF CacheHit(cached)
               THEN /\ current_response' = cached
                    /\ chat_history' = AddToHistory(asked, "assistant", cached.content)
                    /\ UNCHANGED <<query_cache, processCalls>>
               ELSE \E o \in ProcessOutcomes :
                      /\ processCalls' =
                            Append(processCalls,
                                   [user_query |-> query, filters |-> f,
                                    raises |-> o.raises, envelope |-> o.envelope])
                      /\ IF o.raises # ""
                         THEN /\ current_response' = NoneO
                              /\ chat_history' = asked
                              /\ UNCHANGED query_cache
                         ELSE /\ query_cache' = DictSet(query_cache, cache_key, o.envelope)
                              /\ current_response' = o.envelope
                              /\ chat_history' =
                                    AddToHistory(asked, "assistant", o.envelope.content)
    /\ UNCHANGED <<pc, pipelineLocals, replayVars, attempt, outcomes, sleeps,
                   returned, storeVars>>

\* lines 172-180: a run of render with clear set
Clear ==
    /\ pc = "session"
    /\ call.n < MaxSubmits
    /\ call' = [n |-> call.n + 1, button |-> "clear", query |-> <<>>,
                filters |-> NoFilters]
    /\ chat_history' = <<>>
    /\ query_cache' = <<>>
    /\ current_response' = NoneO
    /\ UNCHANGED <<pc, pipelineLocals, replayVars, attempt, outcomes, sleeps,
                   returned, processCalls, storeVars>>

SessionNext == Submit \/ Clear

SpecSession == SessionInit /\ [][SessionNext]_vars

-----------------------------------------------------------------------------
(* Properties. *)

Finished == pc \in {"done", "raised"}

Range(seq) == { seq[i] : i \in DOMAIN seq }

ListOf(it) == IF it.hasConstraints THEN it.constraints ELSE <<>>

CountPair(cs, col, op) ==
    Cardinality({ i \in DOMAIN cs : cs[i].column = col /\ cs[i].operator = op })

\* C1: process() always ends by returning the envelope; no exception escapes
\* to the caller, whatever the oracle, the index and the store answer.
C1_NoExceptionEscapes == pc # "raised" /\ raised = ""

\* C2: when parse_intent returns an intent with the error marker, process()
\* returns at once: task, sql and results unset, no corrections, the fixed
\* apology as content, and no call of the matcher, the synthesizer, the store
\* or the summarizer.
C2_ErrorMarkerShortCircuits ==
    parsed.error =>
        /\ pc = "done"
        /\ raised = ""
        /\ result = [EmptyResult EXCEPT !.content = FixedO(Apology, <<>>)]
        /\ calls.find_similar = 0
        /\ calls.generate_sql = 0
        /\ calls.db_query = 0
        /\ calls.summarize = 0
        /\ calls.answer_general = 0

\* C2 witness: a request whose intent came back with the error marker has
\* returned.
C2_Witness == parsed.error /\ pc = "done" /\ calls.parse_intent = 1

\* C3: after the filter merge every (column, operator) pair other than
\* (Company Name, ==) occurs at most once in the constraint list, also when the
\* oracle's list repeated a pair, and the filter's entry, written last, is the
\* one that is there.
C3_PairsCollapse ==
    pc \in {"merged", "merged_twice"} =>
        LET cs == ListOf(intent)
        IN /\ \A i, j \in DOMAIN cs :
                (i # j /\ SamePair(cs[i], cs[j])) =>
                    (cs[i].column = CompanyName /\ cs[i].operator = "==")
           /\ \A fc \in Range(FilterConstraints(filters)) : fc \in Range(cs)

\* C4: Company Name == constraints accumulate: merging a sidebar brand keeps
\* every Company Name == constraint the intent held, in place, and adds the
\* sidebar brand as one more.
C4_CompaniesAccumulate ==
    pc = "merged" =>
        LET before == ListOf(parsed)
            after == ListOf(intent)
        IN /\ \A i \in DOMAIN before :
                (before[i].column = CompanyName /\ before[i].operator = "==")
                    => (i \in DOMAIN after /\ after[i] = before[i])
           /\ CountPair(after, CompanyName, "==") =
                 CountPair(before, CompanyName, "==")
                 + (IF Truthy(filters.company) THEN 1 ELSE 0)

\* C5: merging the same filter set twice in a row leaves the constraint list
\* that merging it once leaves, entry by entry.
C5_MergeIdempotent ==
    pc = "merged_twice" => intent = MergeFilters(parsed, filters)

\* C5 witness: a second merge has run after a first one that both overwrote an
\* entry of the intent and appended a new one.
C5_Witness ==
    /\ pc = "merged_twice"
    /\ Len(ListOf(intent)) > Len(ListOf(parsed))
    /\ \E i \in DOMAIN ListOf(parsed) : ListOf(intent)[i] # ListOf(parsed)[i]

PriceCeilingCase ==
    /\ branch = "single"
    /\ sqlIntents # <<>>
    /\ Constraint(Price, "<=", NumV(30000)) \in Range(ListOf(parsed))
    /\ filters.price_max = NumV(50000)

\* C6 as claimed: with Launched Price (INR) <= 30000 from the oracle and
\* price_max = 50000 in the sidebar, the list handed to the query synthesizer
\* contains Launched Price (INR) <= 30000.
C6_OracleBoundSurvives ==
    PriceCeilingCase =>
        Constraint(Price, "<=", NumV(30000)) \in Range(ListOf(sqlIntents[1]))

\* C6 as amended: in that case the list handed to the query synthesizer holds
\* Launched Price (INR) <= 50000 as its first (price, <=) entry, in the place
\* of the oracle's first one, and the oracle's 30000 is in it only if the
\* oracle's list held a second (price, <=) entry.
C6_SidebarBoundReplaces ==
    PriceCeilingCase =>
        LET before == ListOf(parsed)
            cs == ListOf(sqlIntents[1])
            firstIn(l) == Min({ i \in DOMAIN l :
                                  l[i].column = Price /\ l[i].operator = "<=" })
        IN /\ Len(cs) >= Len(before)
           /\ firstIn(cs) = firstIn(before)
           /\ cs[firstIn(cs)] = Constraint(Price, "<=", NumV(50000))
           /\ CountPair(before, Price, "<=") = 1
                 => Constraint(Price, "<=", NumV(30000)) \notin Range(cs)

\* C6 witness: the single-query branch has handed the synthesizer an intent
\* merged from the oracle's 30000 ceiling and the sidebar's 50000.
C6_Witness == PriceCeilingCase /\ calls.generate_sql = 1

\* the mention an iteration of the corrections loops looks up, and its kind
MentionAt(i) ==
    IF i <= Len(entities.companies)
    THEN [kind |-> "Company", text |-> entities.companies[i]]
    ELSE [kind |-> "Model", text |-> entities.models[i - Len(entities.companies)]]

\* C7: _apply_corrections appends a correction record for a mention exactly
\* when the matcher answered with a name that differs from the mention
\* ignoring case; for a mention that equals its match ignoring case, or has
\* no match, it appends nothing and leaves the query text as it is.
C7_CorrectionIffDiffers ==
    [][ (pc = "corrections" /\ pc' = "corrections" /\ idx' = idx + 1) =>
           LET m == MentionAt(idx)
               differs == /\ lastMatch'.kind = "str"
                          /\ Lower(lastMatch'.s) # Lower(m.text)
           IN IF differs
              THEN corrections' =
                      Append(corrections, Correction(m.kind, m.text, lastMatch'.s))
              ELSE corrections' = corrections /\ corrected_query' = corrected_query
      ]_vars

\* C7 witness: both loops have run; the company mention matched its own name
\* up to case and left no record, the model mention was corrected and rewrote
\* the query text.
C7_Witness ==
    /\ pc = "corrections"
    /\ idx = 3
    /\ Len(entities.companies) = 1
    /\ company_map = << <<entities.companies[1], Ap>> >>
    /\ Len(corrections) = 1
    /\ corrections[1].kind = "Model"
    /\ corrected_query # user_query

\* C8: the multi-model branch is taken exactly when the task is query and more
\* than one corrected model exists; with zero or one corrected model the
\* single-query branch synthesizes and executes exactly one query, against
\* the merged intent.
C8_DispatchAndSingleExecution ==
    /\ branch # "" =>
          (branch = "multi" <=> (intent.task = "query" /\ Len(corrected_models) > 1))
    /\ (Finished /\ branch = "single") =>
          /\ sqlIntents = <<intent>>
          /\ calls.generate_sql = 1
          /\ calls.db_query = 1

\* C9: in the fan-out a model whose synthesis fails, whose query is rejected
\* or whose execution raises never ends the loop: when process() has ended,
\* every corrected model has been synthesized.
C9_FanOutNeverAborts ==
    (Finished /\ branch = "multi") =>
        /\ calls.generate_sql = Len(corrected_models)
        /\ Len(all_sqls) = Len(corrected_models)
        /\ raised = ""

\* C10: the fan-out ends with the fixed not-found message and no results
\* exactly when no model produced rows, and otherwise with the merged rows
\* and the summary; the not-found message is not the zero-rows message of the
\* single-query branch.
C10_TotalFailureIffNoRows ==
    /\ NotFoundMsg # NoPhonesMsg
    /\ (Finished /\ branch = "multi") =>
          IF all_dfs = <<>>
          THEN result.content = FixedO(NotFoundMsg, <<>>) /\ ~result.results.set
          ELSE result.results = [set |-> TRUE, rows |-> DropDuplicates(Concat(all_dfs))]

\* the calls of one collaborator in this request, in order
CallsOf(name) == SelectSeq(trace, LAMBDA e : e.call = name)

\* C11: in the single-query branch a synthesized text that is not a SELECT
\* gives the fixed bad-query content with results unset; a SELECT that matches
\* no row gives an empty row set and the fixed no-phones content; an exception
\* of the store gives the fixed search-error content; rows are summarized; and
\* the three fixed messages differ from one another.
C11_SingleOutcomesDistinguished ==
    /\ BadQueryMsg # NoPhonesMsg
    /\ BadQueryMsg # SearchErrorMsg
    /\ NoPhonesMsg # SearchErrorMsg
    /\ (Finished /\ branch = "single" /\ CallsOf("generate_sql") # <<>>) =>
          LET so == CallsOf("generate_sql")[1].answer
              db == CallsOf("db_query")
          IN so.kind = "text" =>
                /\ raised = ""
                /\ IF ~StartsWithSelect(so.text)
                   THEN /\ result.content = FixedO(BadQueryMsg, <<>>)
                        /\ ~result.results.set
                        /\ db = <<>>
                   ELSE /\ Len(db) = 1
                        /\ CASE db[1].answer.kind = "raise" ->
                                   result.content = FixedO(SearchErrorMsg, <<>>)
                             [] db[1].answer.kind # "raise" /\ db[1].answer.rows = <<>> ->
                                   /\ result.results = [set |-> TRUE, rows |-> <<>>]
                                   /\ result.content = FixedO(NoPhonesMsg, <<>>)
                             [] OTHER ->
                                   /\ result.results =
                                         [set |-> TRUE, rows |-> db[1].answer.rows]
                                   /\ Len(CallsOf("summarize")) = 1

\* C12: db.query is never handed a synthesized query that does not begin,
\* ignoring case and leading whitespace, with SELECT, in the single-query and
\* in the multi-model branch: a db_query call never follows the synthesis of
\* such a text, and every statement the store was handed is a SELECT text.
C12_OnlySelectReachesStore ==
    /\ \A i \in DOMAIN dbStatements :
          /\ dbStatements[i].kind = "str"
          /\ StartsWithSelect(dbStatements[i].s)
    /\ Len(dbStatements) = calls.db_query
    /\ \A i \in DOMAIN trace :
          (/\ trace[i].call = "generate_sql"
           /\ ~(trace[i].answer.kind = "text" /\ StartsWithSelect(trace[i].answer.text)))
             => (i = Len(trace) \/ trace[i + 1].call # "db_query")

\* C12 witness: the multi-model branch was handed a synthesized text that is
\* not a SELECT, the request has ended, and the store was not called.
C12_Witness ==
    /\ Finished
    /\ branch = "multi"
    /\ \E i \in DOMAIN trace :
          /\ trace[i].call = "generate_sql"
          /\ trace[i].answer.kind = "text"
          /\ ~StartsWithSelect(trace[i].answer.text)
    /\ calls.db_query = 0

\* C13: a request whose task is general_qa, refusal or any unrecognized value
\* makes no db.query call and no generate_sql call, and its envelope keeps sql
\* and results unset.
C13_StoreOnlyOnQueryTask ==
    (result.task # NoTask /\ result.task # "query") =>
        /\ calls.db_query = 0
        /\ calls.generate_sql = 0
        /\ dbStatements = <<>>
        /\ result.sql = NoneO
        /\ ~result.results.set

\* C13 witness: a refusal has returned after the matcher was consulted.
C13_Witness ==
    /\ pc = "done"
    /\ result.task = "refusal"
    /\ branch = "refusal"
    /\ calls.find_similar > 0

\* C14: on task = refusal the content is the refusal prefix followed by the
\* oracle's Refusal_Reason, and by the generic fallback reason whenever that
\* reason is missing or empty.
C14_RefusalReasonOrFallback ==
    (pc = "done" /\ branch = "refusal") =>
        result.content =
            FixedO(RefusalPrefix,
                   IF parsed.hasRefusal /\ Truthy(parsed.refusal)
                   THEN parsed.refusal.s
                   ELSE RefusalFallback)

\* C15: the request run with a callback ends as the same request run without
\* one ended, the collaborators answering alike: same branch, same calls with
\* the same arguments in the same order, same exception or envelope.
C15_StatusStreamIsInert ==
    (earlier.done /\ Finished) =>
        /\ pc = earlier.pc
        /\ branch = earlier.branch
        /\ trace = earlier.trace
        /\ raised = earlier.raised
        /\ result = earlier.result

\* C15 witness: the second run, with a callback that received notes, has gone
\* through the corrections and ended in the multi-model branch.
C15_Witness ==
    /\ earlier.done
    /\ Finished
    /\ on_status
    /\ branch = "multi"
    /\ corrections # <<>>
    /\ Len(statusLog) >= 4

\* C16: the content of every returned envelope is a string, and when the
\* general-question oracle call failed it is a fixed error text.
C16_ContentIsText ==
    pc = "done" =>
        /\ result.content.kind = "str"
        /\ (branch = "general_qa" /\ CallsOf("answer_general")[1].answer.kind # "text")
              => result.content.msg # ""

\* handle_with_retry went on to another attempt after its i-th func() call
Retried(i) == i <= attempt

TransientNetworkError(o) ==
    o.kind = "request_exception" /\ o.class \in {"ConnectionError", "Timeout"}

RateLimited(o) == o.kind = "http" /\ o.status = 429

RetryReturned == pc \in {"retry_returned", "post_returned"}

\* C17: with max_retries = 2 the wrapped request is invoked at most 3 times
\* and then handle_with_retry returns; another attempt follows only a
\* transient network error or a rate-limit response; an HTTP error other than
\* 429 and an exception that is no request exception end the call after that
\* one failed attempt with an error_info.
C17_BoundedRetryOnlyWhenTransient ==
    /\ Len(outcomes) <= MaxRetries + 1
    /\ Len(outcomes) = MaxRetries + 1 => RetryReturned
    /\ \A i \in DOMAIN outcomes :
          Retried(i) => (TransientNetworkError(outcomes[i]) \/ RateLimited(outcomes[i]))
    /\ \A i \in DOMAIN outcomes :
          (\/ outcomes[i].kind = "http" /\ outcomes[i].status # 429
           \/ outcomes[i].kind = "exception")
             => /\ ~Retried(i)
                /\ i = Len(outcomes)
                /\ pc = "retry_returned" =>
                      (returned.raises = "" /\ returned.error.type # "none")

\* the sleep the claim expects after the i-th call was answered with 429
ExpectedWait(i) ==
    IF outcomes[i].header.kind = "none"
    THEN RetryDelay * Power(BackoffFactor, i - 1)
    ELSE IntOf(outcomes[i].header).n

\* C18: a 429 answer with retries left makes handle_with_retry sleep the
\* Retry-After duration (the exponential backoff without the header) and call
\* again; only the 429 answer to the last attempt makes it return, a
\* rate_limit error_info carrying retry_after, and it never raises.
C18_RateLimitWaitsAndRetries ==
    \A i \in DOMAIN outcomes :
        RateLimited(outcomes[i]) =>
            IF i <= MaxRetries
            THEN /\ Retried(i)
                 /\ Len(sleeps) >= i
                 /\ sleeps[i] = ExpectedWait(i)
            ELSE pc = "retry_returned" =>
                    /\ returned.raises = ""
                    /\ returned.error.type = "rate_limit"
                    /\ returned.error.retry_after.kind = "num"

FailingIntentOutcome(o) ==
    o.kind \in {"post_error", "falsy_body", "bad_format"}

\* C19: parse_intent never raises; for every failing outcome of the oracle
\* call it returns the fallback intent (task = query, no constraints, no
\* entities) with the error marker; on success a missing or empty task
\* becomes query.
C19_ParseIntentFailsClosed ==
    calls.parse_intent = 1 =>
        LET o == CallsOf("parse_intent")[1].answer
        IN /\ pc = "raised" => Len(trace) > 1
           /\ FailingIntentOutcome(o) =>
                 /\ raised = ""
                 /\ parsed = DefaultResponse
                 /\ parsed.error
                 /\ parsed.task = "query"
                 /\ parsed.constraints = <<>>
                 /\ parsed.entities = NoEntities
           /\ o.kind = "json" =>
                 parsed = [o.json EXCEPT !.task = IF @ = "" THEN "query" ELSE @]

\* the inputs for which C20 promises "no match"
NoMatchCase ==
    \/ call.query = <<>>
    \/ ~call.embedding_ok
    \/ ~call.ia.raises /\ call.ia.matches = <<>>
    \/ ~call.ia.raises /\ call.ia.matches # <<>>
          /\ call.ia.matches[1].score <= Threshold

\* C20: find_similar returns the stored name of the single top result only
\* when its score is strictly above the threshold; an empty text, an
\* embedding failure, an empty index answer and a score at or below the
\* threshold each give None and no exception.
C20_MatchOnlyAboveThreshold ==
    pc = "matched" =>
        /\ returned.kind = "str" =>
              /\ call.query # <<>>
              /\ call.embedding_ok
              /\ ~call.ia.raises
              /\ Len(call.ia.matches) = 1
              /\ call.ia.matches[1].score > Threshold
              /\ returned.s = call.ia.matches[1].original_name
        /\ NoMatchCase => returned = NoneV

\* C20 witness: the index answered a top result whose score is exactly the
\* threshold, and find_similar returned None.
C20_Witness ==
    /\ pc = "matched"
    /\ call.query # <<>>
    /\ call.embedding_ok
    /\ ~call.ia.raises
    /\ call.ia.matches # <<>>
    /\ call.ia.matches[1].score = Threshold
    /\ returned = NoneV

\* the k-th smallest element of a set of numbers
KthSmallest(S, k) == CHOOSE x \in S : Cardinality({ y \in S : y < x }) = k - 1

\* the positions of df whose model name occurs at no earlier position
FirstOccurrences(df) ==
    { i \in DOMAIN df : \A j \in 1..(i - 1) : df[j].model # df[i].model }

\* C21: summarize puts at most 4 rows into the prompt and builds buy links
\* for rows among those only; the rows are the first 4 of the input after
\* every row whose Model Name occurred earlier is dropped, so no model name is
\* there twice, whatever the input, results of more than 4 rows included.
C21_FirstFourDistinctModels ==
    pc = "summarized" =>
        LET df == call.df
            sent == returned.prompt.df_json
            firsts == FirstOccurrences(df)
        IN /\ Len(sent) <= 4
           /\ Len(sent) = (IF Cardinality(firsts) < 4 THEN Cardinality(firsts) ELSE 4)
           /\ \A k \in DOMAIN sent : sent[k] = df[KthSmallest(firsts, k)]
           /\ \A i, j \in DOMAIN sent : i # j => sent[i].model # sent[j].model
           /\ returned.prompt.num_phones = Len(sent)
           /\ Len(returned.buy_links) <= Len(sent)
           /\ \A l \in DOMAIN returned.buy_links :
                 \E k \in DOMAIN sent :
                    returned.buy_links[l] =
                        Strip(sent[k].company \o <<" ">> \o sent[k].model)

\* C21 witness: summarize was handed six rows of five model names, one of
\* them twice, sent four of them and built buy links.
C21_Witness ==
    /\ pc = "summarized"
    /\ Len(call.df) = 6
    /\ Cardinality(FirstOccurrences(call.df)) = 5
    /\ call.df[2].model = call.df[1].model
    /\ Len(returned.prompt.df_json) = 4
    /\ returned.buy_links # <<>>

\* s has no upper-case letter
IsLowerCase(s) == \A i \in DOMAIN s : s[i] \notin DOMAIN UpperToLower

\* C22: in every intent handed to generate_sql, by the single-query branch
\* and by the multi-model branch, every string value of a constraint on
\* Company Name, Model Name or Processor is lower-case.
C22_StringValuesLowerCase ==
    \A i \in DOMAIN sqlIntents :
        \A j \in DOMAIN ListOf(sqlIntents[i]) :
            LET c == ListOf(sqlIntents[i])[j]
            IN (c.column \in StringColumns /\ c.value.kind = "str")
                  => IsLowerCase(c.value.s)

\* C23: every query and execute call makes a connection of its own and has
\* closed it when the call ends, whether the statement succeeded or raised,
\* so that between calls no connection is open; and an exception of the
\* statement leaves the call, it is not caught there.
C23_ConnectionPerCallAlwaysClosed ==
    pc = "store" =>
        /\ \A k \in DOMAIN connections : ~connections[k].open
        /\ \A i \in DOMAIN dbCalls :
              dbCalls[i].outcome # "connect_error" =>
                 /\ dbCalls[i].conn \in DOMAIN connections
                 /\ \A j \in DOMAIN dbCalls :
                       (j # i) => dbCalls[j].conn # dbCalls[i].conn
        /\ Len(connections) =
              Cardinality({ i \in DOMAIN dbCalls : dbCalls[i].outcome # "connect_error" })
        /\ \A i \in DOMAIN dbCalls :
              (dbCalls[i].outcome # "ok") <=> (dbCalls[i].raises # "")

\* C23 witness: a query whose statement raised, an execute whose commit
\* raised and a query that returned rows have been made, each on its own
\* connection.
C23_Witness ==
    /\ pc = "store"
    /\ Len(dbCalls) = 3
    /\ Len(connections) = 3
    /\ dbCalls[1].op = "query" /\ dbCalls[1].outcome = "statement_error"
    /\ dbCalls[2].op = "execute" /\ dbCalls[2].outcome = "commit_error"
    /\ dbCalls[3].op = "query" /\ dbCalls[3].outcome = "ok"
    /\ \A k \in DOMAIN connections : ~connections[k].open

\* C24: in the multi-model branch the intent handed to generate_sql for a
\* model holds one constraint, Model Name == that model's name (lower-cased
\* by the normalization), and no ordering, whatever the sidebar filter set
\* and the constraints and ordering of the oracle's intent are.
C24_PerModelIntentIsolated ==
    branch = "multi" =>
        /\ Len(sqlIntents) <= Len(corrected_models)
        /\ \A i \in DOMAIN sqlIntents :
              /\ sqlIntents[i].task = "query"
              /\ sqlIntents[i].hasConstraints
              /\ sqlIntents[i].constraints =
                    <<Constraint(ModelName, "==", StrV(Lower(corrected_models[i])))>>
              /\ sqlIntents[i].priority_features = ""

\* C24 witness: the multi-model branch has handed generate_sql a per-model
\* intent in a request whose sidebar sets a brand and a price ceiling and
\* whose oracle intent carries a constraint and an ordering.
C24_Witness ==
    /\ branch = "multi"
    /\ sqlIntents # <<>>
    /\ Truthy(filters.company)
    /\ filters.price_max # NoneV
    /\ ListOf(parsed) # <<>>
    /\ parsed.priority_features # ""
    /\ ListOf(intent) # ListOf(parsed)

\* C25: a model that two mentions resolve to counts once: the multi-model
\* branch is taken exactly when the task is query and more than one distinct
\* corrected model exists, and no model is synthesized twice.
C25_FanOutPerDistinctModel ==
    /\ branch # "" =>
          (branch = "multi" <=>
              (intent.task = "query" /\ Cardinality(Range(corrected_models)) > 1))
    /\ branch = "multi" =>
          \A i, j \in DOMAIN sqlIntents :
              i # j => sqlIntents[i] # sqlIntents[j]

\* the positions of company_map whose mention or matched name occurs in the
\* model mention, ignoring case
NamedCompanies(model, cmap) ==
    { i \in DOMAIN cmap :
          \/ Contains(cmap[i][1], Lower(model))
          \/ Contains(Lower(cmap[i][2]), Lower(model)) }

\* C26: a model lookup is given a company filter only when exactly one
\* company was resolved or the model mention itself names a resolved company
\* (then that company's matched name); with two or more companies resolved
\* and none named by the mention it is given none; and find_similar puts a
\* company, lower-cased, into its filter only when type_filter is model.
C26_CompanyFilterOnlyWhenUnambiguous ==
    /\ (pc \in {"lookup_input", "filtered"} /\ call.site = "model_lookup") =>
          LET named == NamedCompanies(call.query, company_map)
          IN /\ call.company_filter # NoneV =>
                   (Len(company_map) = 1 \/ named # {})
             /\ named # {} =>
                   \E i \in named : call.company_filter = StrV(company_map[i][2])
             /\ (named = {} /\ Len(company_map) = 1) =>
                   call.company_filter = StrV(company_map[1][2])
             /\ (named = {} /\ Len(company_map) >= 2) =>
                   call.company_filter = NoneV
    /\ pc = "filtered" =>
          /\ returned.hasCompany =>
                /\ call.type_filter = "model"
                /\ call.company_filter.kind = "str"
                /\ returned.company = Lower(call.company_filter.s)
                /\ IsLowerCase(returned.company)
          /\ (call.type_filter = "model" /\ Truthy(call.company_filter)) =>
                returned.hasCompany

\* C26 witness: with two companies resolved and a mention that names neither,
\* the model lookup has built its filter without a company.
C26_Witness ==
    /\ pc = "filtered"
    /\ call.site = "model_lookup"
    /\ Len(company_map) = 2
    /\ NamedCompanies(call.query, company_map) = {}
    /\ call.company_filter = NoneV
    /\ returned.hasType
    /\ ~returned.hasCompany

\* the (column, operator) pairs of the filter keys that are not None
ProducedPairs(f) ==
    (IF f.company # NoneV THEN { <<CompanyName, "==">> } ELSE {})
    \cup { <<col, ">=">> : col \in { c \in Range(RangeColumns) : FilterMin(f, c) # NoneV } }
    \cup { <<col, "<=">> : col \in { c \in Range(RangeColumns) : FilterMax(f, c) # NoneV } }

\* C27: a filter key that is None adds and changes nothing: merging a filter
\* set whose keys are all None leaves the intent as it was, with or without
\* a constraint list; and any merge leaves every constraint whose (column,
\* operator) pair comes from no non-None key where it was, and appends no
\* constraint with such a pair.
C27_NoneKeysChangeNothing ==
    pc = "merged" =>
        LET before == ListOf(parsed)
            after == ListOf(intent)
            produced == ProducedPairs(filters)
        IN /\ produced = {} => intent = parsed
           /\ Len(after) >= Len(before)
           /\ \A i \in DOMAIN before :
                 <<before[i].column, before[i].operator>> \notin produced
                    => after[i] = before[i]
           /\ \A j \in DOMAIN after :
                 <<after[j].column, after[j].operator>> \notin produced
                    => j \in DOMAIN before

\* C27 witness: a merge with some keys None and some set has overwritten the
\* first constraint and left the second, whose pair no key produces, in
\* place.
C27_Witness ==
    /\ pc = "merged"
    /\ filters.company = NoneV
    /\ filters.price_max # NoneV
    /\ Len(ListOf(parsed)) = 2
    /\ ListOf(parsed)[2].column = ModelName
    /\ ListOf(intent)[1] # ListOf(parsed)[1]
    /\ ListOf(intent)[2] = ListOf(parsed)[2]

\* C28: the intent the single-query branch hands to generate_sql holds no
\* entities, and its constraint list is the oracle's list after the filter
\* merge and the lower-casing, with Model Name values replaced by what the
\* matcher answered for them and nothing else; so one extracted model and no
\* Model Name constraint from the oracle give an intent without a Model Name
\* constraint.
C28_SingleIntentIgnoresEntities ==
    (branch = "single" /\ sqlIntents # <<>>) =>
        LET it == sqlIntents[1]
            cs == ListOf(it)
            merged == ListOf(NormalizeIntent(MergeFilters(parsed, filters)))
            snapped(i) ==
                /\ merged[i].column = ModelName
                /\ \E t \in DOMAIN trace :
                      /\ trace[t].call = "find_similar"
                      /\ trace[t].arg.type_filter = "model"
                      /\ trace[t].arg.company_filter = NoneV
                      /\ StrV(trace[t].arg.query) = merged[i].value
                      /\ trace[t].answer = cs[i].value
        IN /\ ~it.hasEntities
           /\ it.entities = NoEntities
           /\ Len(cs) = Len(merged)
           /\ \A i \in DOMAIN cs :
                 /\ cs[i].column = merged[i].column
                 /\ cs[i].operator = merged[i].operator
                 /\ cs[i] = merged[i] \/ snapped(i)
           /\ (/\ Len(entities.models) = 1
               /\ \A i \in DOMAIN ListOf(parsed) : ListOf(parsed)[i].column # ModelName)
                 => \A i \in DOMAIN cs : cs[i].column # ModelName

\* C28 witness: a request with one extracted model, corrected by the matcher,
\* and constraints from the oracle and the sidebar but none on Model Name,
\* has handed its intent to generate_sql in the single-query branch.
C28_Witness ==
    /\ branch = "single"
    /\ sqlIntents # <<>>
    /\ Len(entities.models) = 1
    /\ corrected_models # entities.models
    /\ ListOf(parsed) # <<>>
    /\ filters # NoFilters
    /\ \A i \in DOMAIN ListOf(sqlIntents[1]) :
          ListOf(sqlIntents[1])[i].column # ModelName

\* the entries of h at the positions outside S, in the order of h
Without(h, S) ==
    [k \in 1..(Len(h) - Cardinality(S \cap DOMAIN h)) |->
        h[KthSmallest(DOMAIN h \ S, k)]]

\* C29: whenever _add_to_history has returned, the history holds at most
\* MAX_HISTORY = 5 entries with role user; an iteration of its trimming loop
\* removes the oldest user entry and, when an assistant entry directly
\* follows it, that entry too, and leaves the other entries in their order;
\* and the loop ends, so that every call returns.
C29_HistoryBoundedAndTrimmedOldestFirst ==
    /\ [](pc = "history" => UserCount(chat_history) <= 5)
    /\ [][ pc = "trim" =>
             LET h == chat_history
                 i == CHOOSE k \in DOMAIN h :
                         /\ h[k].role = "user"
                         /\ \A j \in 1..(k - 1) : h[j].role # "user"
                 gone == IF i < Len(h) /\ h[i + 1].role = "assistant"
                         THEN {i, i + 1} ELSE {i}
             IN chat_history' = Without(h, gone)
         ]_vars
    /\ (pc = "trim") ~> (pc = "history")

\* C29 witness: eight calls have been made, the sixth user entry made the
\* loop remove the first user entry and the assistant entry after it, and
\* the call returned with five user entries.
C29_Witness ==
    /\ pc = "history"
    /\ call.n = 8
    /\ UserCount(chat_history) = 5
    /\ Len(chat_history) = 6
    /\ chat_history[1].content = 3

\* the keys of the cache, and what the cache holds under a key
KeysOf(cache) == { cache[i][1] : i \in DOMAIN cache }
StoredUnder(cache, key) == { cache[i][2] : i \in { j \in DOMAIN cache : cache[j][1] = key } }

\* C30: a submitted query whose key, the lower-cased and stripped text with
\* the filter items, is in the cache is answered with the stored response,
\* process() is not called and the cache stays as it is; a query whose key
\* is not there is processed once, and the envelope process() returns,
\* whatever its content, is stored under the key and shown; and a key leaves
\* the cache only when Clear is pressed.
C30_CachedResponseReused ==
    [][ /\ call'.button = "ask" =>
              LET key == <<Strip(Lower(call'.query)), call'.filters>>
                  stored == StoredUnder(query_cache, key)
              IN IF stored # {}
                 THEN /\ processCalls' = processCalls
                      /\ query_cache' = query_cache
                      /\ current_response' \in stored
                 ELSE /\ Len(processCalls') = Len(processCalls) + 1
                      /\ LET p == processCalls'[Len(processCalls')]
                         IN /\ p.user_query = call'.query
                            /\ p.filters = call'.filters
                            /\ p.raises = "" =>
                                  /\ StoredUnder(query_cache', key) = {p.envelope}
                                  /\ current_response' = p.envelope
                            /\ p.raises # "" => query_cache' = query_cache
        /\ (\E k \in KeysOf(query_cache) :
               StoredUnder(query_cache', k) # StoredUnder(query_cache, k))
              => (call'.button = "clear" /\ query_cache' = <<>>)
      ]_vars

\* C30 witness: " ap " was submitted after "Ap" had been answered with the
\* apology envelope; process() was called once, and the stored apology is
\* shown for the second submission.
C30_Witness ==
    /\ call.n = 2
    /\ call.button = "ask"
    /\ Len(processCalls) = 1
    /\ processCalls[1].user_query # call.query
    /\ processCalls[1].envelope.content = FixedO(Apology, <<>>)
    /\ current_response = processCalls[1].envelope
    /\ Len(query_cache) = 1
    /\ Len(chat_history) = 4

====
